---- MODULE Spec2Model ----
(***************************************************************************)
(* Model of the daily-processing ledger, the change detection and the      *)
(* alert scheduler of VehicleManager (services/AlertService.js with its    *)
(* collaborators DataHashService and EmailService).                        *)
(*                                                                         *)
(* Conventions                                                             *)
(*  - A JavaScript string is a sequence of one-character strings;          *)
(*    charCodeAt gives the UTF-16 code unit of a character.                *)
(*  - A Date is its instant, counted in hours since Sunday 2024-01-07      *)
(*    00:00 UTC; InvalidDate is a Date whose getTime() is NaN.             *)
(*  - A Firestore collection is a function from document id to document;   *)
(*    setDoc on an existing id replaces the document.                      *)
(*  - Every await on a collaborator (Firestore, EmailJS) may fail; the     *)
(*    failure is a nondeterministic input of the step that awaits.         *)
(*  - The upload page (pages/ChatUpload.jsx, TransferPreview.jsx) and the  *)
(*    WhatsAppParser are modelled further down; a regular expression is a  *)
(*    sequence of nodes run by a backtracking matcher, and a Date of the   *)
(*    parser is counted in minutes since 1970-01-01T00:00Z.                *)
(*  - The commit of a batch (handleSaveTransfers), the Vehicles page and   *)
(*    the hooks useAlertSystem and useDailyProcessingCheck come after the  *)
(*    upload page; a callback of a hook is the closure of its render.      *)
(***************************************************************************)
EXTENDS Integers, Sequences, FiniteSets, TLC

(***************************************************************************)
(* Strings                                                                 *)
(***************************************************************************)
LowerCaseLetters ==
    <<"a", "b", "c", "d", "e", "f", "g", "h", "i", "j", "k", "l", "m",
      "n", "o", "p", "q", "r", "s", "t", "u", "v", "w", "x", "y", "z">>

UpperCaseLetters ==
    <<"A", "B", "C", "D", "E", "F", "G", "H", "I", "J", "K", "L", "M",
      "N", "O", "P", "Q", "R", "S", "T", "U", "V", "W", "X", "Y", "Z">>

DecimalDigits == <<"0", "1", "2", "3", "4", "5", "6", "7", "8", "9">>

Range(s) == {s[i] : i \in DOMAIN s}

IndexOf(s, c) == CHOOSE i \in DOMAIN s : s[i] = c

\* String.prototype.charCodeAt for the characters the model uses (ASCII).
charCodeAt ==
    [c \in Range(LowerCaseLetters) |-> 96 + IndexOf(LowerCaseLetters, c)] @@
    [c \in Range(UpperCaseLetters) |-> 64 + IndexOf(UpperCaseLetters, c)] @@
    [c \in Range(DecimalDigits) |-> 47 + IndexOf(DecimalDigits, c)] @@
    (" " :> 32) @@ ("\"" :> 34) @@ ("," :> 44) @@ ("-" :> 45) @@
    ("." :> 46) @@ (":" :> 58) @@ ("[" :> 91) @@ ("]" :> 93) @@
    ("_" :> 95) @@ ("{" :> 123) @@ ("}" :> 125)

\* null / undefined where the code expects a string
Null == <<"<null>">>

\* String.prototype.toLowerCase
toLowerCase(s) ==
    [i \in DOMAIN s |->
        IF s[i] \in Range(UpperCaseLetters)
        THEN LowerCaseLetters[IndexOf(UpperCaseLetters, s[i])]
        ELSE s[i]]

RECURSIVE trimStart(_)
trimStart(s) ==
    IF s # <<>> /\ Head(s) = " " THEN trimStart(Tail(s)) ELSE s

RECURSIVE trimEnd(_)
trimEnd(s) ==
    IF s # <<>> /\ s[Len(s)] = " "
    THEN trimEnd(SubSeq(s, 1, Len(s) - 1))
    ELSE s

\* String.prototype.trim
trim(s) == trimEnd(trimStart(s))

\* a < b in UTF-16 code unit order (Array.prototype.sort without comparator;
\* localeCompare agrees with it on the lower-case letters, digits and "-"
\* that remain after _normalizeString)
RECURSIVE CodeUnitLess(_, _)
CodeUnitLess(a, b) ==
    IF b = <<>> THEN FALSE
    ELSE IF a = <<>> THEN TRUE
    ELSE IF charCodeAt[Head(a)] # charCodeAt[Head(b)]
         THEN charCodeAt[Head(a)] < charCodeAt[Head(b)]
         ELSE CodeUnitLess(Tail(a), Tail(b))

\* Number.prototype.toString() of a non-negative integer
RECURSIVE ToDecimal(_)
ToDecimal(n) ==
    IF n < 10 THEN <<DecimalDigits[n + 1]>>
    ELSE ToDecimal(n \div 10) \o <<DecimalDigits[(n % 10) + 1]>>

\* ("0" + n).slice(-2)
TwoDigits(n) == <<DecimalDigits[(n \div 10) + 1], DecimalDigits[(n % 10) + 1]>>

RECURSIVE Join(_, _)
Join(parts, sep) ==
    IF parts = <<>> THEN <<>>
    ELSE IF Len(parts) = 1 THEN parts[1]
    ELSE parts[1] \o sep \o Join(Tail(parts), sep)

Quoted(s) == <<"\"">> \o s \o <<"\"">>

\* String.prototype.includes
includes(s, sub) ==
    \E i \in 1..(Len(s) - Len(sub) + 1) : SubSeq(s, i, i + Len(sub) - 1) = sub

\* s.split(' ')[0]: the characters before the first space
RECURSIVE FirstWord(_)
FirstWord(s) ==
    IF s = <<>> \/ Head(s) = " " THEN <<>> ELSE <<Head(s)>> \o FirstWord(Tail(s))

\* s.substring(0, n)
substring0(s, n) == SubSeq(s, 1, IF Len(s) < n THEN Len(s) ELSE n)

\* s.replace(/[...]/g, '') for a set of characters
Without(s, chars) == SelectSeq(s, LAMBDA c : c \notin chars)

(***************************************************************************)
(* Dates                                                                   *)
(***************************************************************************)
\* a Date object with NaN time value
InvalidDate == -1

HoursPerDay == 24

\* Date.prototype.toISOString for the instants of January 2024 the model uses
toISOString(t) ==
    <<"2", "0", "2", "4", "-", "0", "1", "-">> \o TwoDigits(7 + (t \div HoursPerDay)) \o
    <<"T">> \o TwoDigits(t % HoursPerDay) \o
    <<":", "0", "0", ":", "0", "0", ".", "0", "0", "0", "Z">>

\* date.toISOString().split('T')[0]: the UTC calendar day, as its day number
\* (YYYY-MM-DD is one-to-one with the day number)
_formatDateString(date) == date \div HoursPerDay

\* date instanceof Date && !isNaN(date.getTime())
_validateDate(date) == date # InvalidDate

(***************************************************************************)
(* DataHashService                                                         *)
(***************************************************************************)
\* transfer.dateTime when it is null / undefined (falsy)
NoDateTime == -2

\* a number with a fractional part: n + 0.5 is kept as HalfTag + n (the whole
\* numbers of the model stay below HalfTag)
HalfTag == 1000

\* _normalizeNumber: parseInt(value, 10) drops the fractional part (NaN, which
\* becomes 0, is not modelled)
_normalizeNumber(value) == IF value >= HalfTag THEN value - HalfTag ELSE value

\* _normalizeString: String(value || '') for a non-string, else trim + lower case
_normalizeString(value) ==
    IF value = Null THEN <<>> ELSE toLowerCase(trim(value))

\* the comparator key of _normalizeTransfers: `${vehicleId}-${toDriver}-${fromDriver}`
SortKey(t) == t.vehicleId \o <<"-">> \o t.toDriver \o <<"-">> \o t.fromDriver

\* Array.prototype.sort is stable: an element goes behind every element whose
\* key is not greater than its own
RECURSIVE InsertByKey(_, _)
InsertByKey(sorted, t) ==
    IF sorted = <<>> THEN <<t>>
    ELSE IF CodeUnitLess(SortKey(t), SortKey(Head(sorted)))
         THEN <<t>> \o sorted
         ELSE <<Head(sorted)>> \o InsertByKey(Tail(sorted), t)

RECURSIVE SortByKey(_)
SortByKey(ts) ==
    IF ts = <<>> THEN <<>>
    ELSE InsertByKey(SortByKey(SubSeq(ts, 1, Len(ts) - 1)), ts[Len(ts)])

\* _normalizeTransfers; toISOString throws a RangeError on an invalid date
\* (see NormalizeThrows), dateTime is null when falsy
_normalizeTransfers(transfers) ==
    SortByKey([i \in DOMAIN transfers |->
        [vehicleId  |-> _normalizeString(transfers[i].vehicleId),
         toDriver   |-> _normalizeString(transfers[i].toDriver),
         fromDriver |-> _normalizeString(transfers[i].fromDriver),
         dateTime   |-> transfers[i].dateTime]])

RECURSIVE InsertString(_, _)
InsertString(sorted, f) ==
    IF sorted = <<>> THEN <<f>>
    ELSE IF CodeUnitLess(f, Head(sorted))
         THEN <<f>> \o sorted
         ELSE <<Head(sorted)>> \o InsertString(Tail(sorted), f)

\* Array.prototype.sort() of strings
RECURSIVE SortStrings(_)
SortStrings(fs) ==
    IF fs = <<>> THEN <<>>
    ELSE InsertString(SortStrings(SubSeq(fs, 1, Len(fs) - 1)), fs[Len(fs)])

\* _normalizeFilesList: normalize, drop the empty names, sort
_normalizeFilesList(files) ==
    SortStrings(SelectSeq([i \in DOMAIN files |-> _normalizeString(files[i])],
                          LAMBDA f : Len(f) > 0))

\* _normalizeData (data.department is undefined unless the caller sets it)
_normalizeData(data) ==
    [transfersCount |-> _normalizeNumber(data.transfersCount),
     transfers      |-> _normalizeTransfers(data.transfers),
     filesProcessed |-> _normalizeFilesList(data.filesProcessed),
     source         |-> _normalizeString(data.source),
     department     |-> _normalizeString(Null)]

\* the statement of _normalizeTransfers that throws: new Date(x).toISOString()
NormalizeThrows(data) ==
    \E i \in DOMAIN data.transfers : data.transfers[i].dateTime = InvalidDate

SerializeTransfer(t) ==
    <<"{", "\"", "d", "a", "t", "e", "T", "i", "m", "e", "\"", ":">> \o
    (IF t.dateTime = NoDateTime THEN <<"n", "u", "l", "l">>
     ELSE Quoted(toISOString(t.dateTime))) \o
    <<",", "\"", "f", "r", "o", "m", "D", "r", "i", "v", "e", "r", "\"", ":">> \o
    Quoted(t.fromDriver) \o
    <<",", "\"", "t", "o", "D", "r", "i", "v", "e", "r", "\"", ":">> \o
    Quoted(t.toDriver) \o
    <<",", "\"", "v", "e", "h", "i", "c", "l", "e", "I", "d", "\"", ":">> \o
    Quoted(t.vehicleId) \o <<"}">>

\* _serializeData: JSON.stringify with the key-sorting replacer of
\* _getJSONReplacer, no indentation
_serializeData(n) ==
    <<"{", "\"", "d", "e", "p", "a", "r", "t", "m", "e", "n", "t", "\"", ":">> \o
    Quoted(n.department) \o
    <<",", "\"", "f", "i", "l", "e", "s", "P", "r", "o", "c", "e", "s", "s",
      "e", "d", "\"", ":", "[">> \o
    Join([i \in DOMAIN n.filesProcessed |-> Quoted(n.filesProcessed[i])], <<",">>) \o
    <<"]", ",", "\"", "s", "o", "u", "r", "c", "e", "\"", ":">> \o
    Quoted(n.source) \o
    <<",", "\"", "t", "r", "a", "n", "s", "f", "e", "r", "s", "\"", ":", "[">> \o
    Join([i \in DOMAIN n.transfers |-> SerializeTransfer(n.transfers[i])], <<",">>) \o
    <<"]", ",", "\"", "t", "r", "a", "n", "s", "f", "e", "r", "s", "C", "o",
      "u", "n", "t", "\"", ":">> \o
    ToDecimal(n.transfersCount) \o <<"}">>

\* 32-bit integers are kept as two 16-bit halves: hash = hi * 2^16 + lo
HalfWord == 65536

\* the loop of _calculateHash over the characters from..to of str, entered
\* with hash h = <<hi, lo>>: hash = ((hash << 5) + hash) + char; hash = hash & hash
\* (the range is halved so that the evaluation stays shallow)
RECURSIVE Djb2(_, _, _, _)
Djb2(str, from, to, h) ==
    IF from > to THEN h
    ELSE IF from = to
    THEN LET l == h[2] * 33 + charCodeAt[str[from]]
         IN  <<(h[1] * 33 + (l \div HalfWord)) % HalfWord, l % HalfWord>>
    ELSE LET mid  == (from + to) \div 2
             left == Djb2(str, from, mid, h)
         IN  IF left[1] >= 0 THEN Djb2(str, mid + 1, to, left) ELSE left

\* Math.abs of the signed 32-bit value <<hi, lo>>
Abs32(h) ==
    IF h[1] < HalfWord \div 2 THEN h
    ELSE <<(HalfWord - 1 - h[1] + (IF h[2] = 0 THEN 1 ELSE 0)) % HalfWord,
           (HalfWord - h[2]) % HalfWord>>

\* the loop of _calculateChecksum over the characters from..to of str
RECURSIVE SumCodes(_, _, _)
SumCodes(str, from, to) ==
    IF from > to THEN 0
    ELSE IF from = to THEN charCodeAt[str[from]]
    ELSE LET mid == (from + to) \div 2
         IN  SumCodes(str, from, mid) + SumCodes(str, mid + 1, to)

\* _calculateChecksum: (sum of the char codes) % 256
_calculateChecksum(str) == SumCodes(str, 1, Len(str)) % 256

\* _calculateHash: the digest `${hashStr}${checksum}`, 8 + 2 hexadecimal digits,
\* kept as <<high half, low half, checksum>> (the hexadecimal text is one-to-one
\* with these numbers)
_calculateHash(str) ==
    LET h == Abs32(Djb2(str, 1, Len(str), <<5381 \div HalfWord, 5381 % HalfWord>>))
    IN  <<h[1], h[2], _calculateChecksum(str)>>

\* _generateFallbackHash: the digest of `fallback_${Date.now()}_${random}`
_generateFallbackHash(timestamp, random) ==
    _calculateHash(<<"f", "a", "l", "l", "b", "a", "c", "k", "_">> \o
                   ToDecimal(timestamp) \o <<"_">> \o random)

\* generateDataHash: the digest of the normalized, serialized data; whatever
\* is thrown on the way is caught and answered with the fallback digest
generateDataHash(data, timestamp, random) ==
    IF NormalizeThrows(data)
    THEN _generateFallbackHash(timestamp, random)
    ELSE _calculateHash(_serializeData(_normalizeData(data)))

(***************************************************************************)
(* Configuration (constants/index.js) and the bounds of the model          *)
(***************************************************************************)
\* ALERT_CONFIG.ALERT_DAYS: Monday to Saturday (0 = Sunday)
ALERT_DAYS == {1, 2, 3, 4, 5, 6}

\* ALERT_CONFIG.DEFAULT_ALERT_HOUR
DEFAULT_ALERT_HOUR == 18

\* ALERT_TYPES.DAILY_PROCESSING
DAILY_PROCESSING == "daily_processing"

\* the first instant of a behaviour: Tuesday 2024-01-09 00:00 UTC
StartInstant == 2 * HoursPerDay

\* the clock stops at this instant, Tuesday 2024-01-09 01:00 UTC
MaxNow == 49

\* at most this many runs of checkAndSendDailyAlerts are started
MaxTicks == 2

\* at most this many calls of recordDailyProcessing write a document
MaxRecords == 2

\* the browser's offset from UTC in hours: Colombia (UTC-5) and UTC
UtcOffsets == {-5, 0}

\* the concurrent triggers of checkAndSendDailyAlerts (timer, manual check,
\* a second browser session)
Runs == {"r1", "r2"}

\* a call takes the first free run
RunOrder == [r \in Runs |-> IF r = "r1" THEN 1 ELSE 2]

\* the calendar days the model reaches, as day numbers
Days == ((StartInstant \div HoursPerDay) - 1)..(MaxNow \div HoursPerDay)

\* values of Math.random().toString(36).substring(2)
RandomStrings == {<<"a">>, <<"b">>}

(***************************************************************************)
(* Processing batches offered to detectChanges and recordDailyProcessing   *)
(***************************************************************************)
Whatsapp == <<"w", "h", "a", "t", "s", "a", "p", "p">>

TransferA ==
    [vehicleId |-> <<"A", "1">>, toDriver |-> <<"J", "o">>,
     fromDriver |-> Null, dateTime |-> NoDateTime]

TransferB ==
    [vehicleId |-> <<"b", "2">>, toDriver |-> <<"A", "l">>,
     fromDriver |-> <<"J", "o">>, dateTime |-> StartInstant]

\* a transfer whose dateTime is an invalid Date (or an unparseable string)
TransferBad ==
    [vehicleId |-> <<"c", "3">>, toDriver |-> <<"A", "l">>,
     fromDriver |-> Null, dateTime |-> InvalidDate]

\* TransferA again, at another time
TransferALater ==
    [vehicleId |-> <<"A", "1">>, toDriver |-> <<"J", "o">>,
     fromDriver |-> Null, dateTime |-> StartInstant]

Batch(count, transfers, files) ==
    [transfersCount |-> count, transfers |-> transfers,
     filesProcessed |-> files, source |-> Whatsapp]

BatchEmpty   == Batch(0, <<>>, << <<"f", "1">> >>)
BatchOne     == Batch(1, <<TransferA>>, << <<"f", "1">> >>)
BatchTwo     == Batch(2, <<TransferA, TransferB>>, << <<"f", "1">> >>)
BatchOther   == Batch(1, <<TransferB>>, << <<"f", "1">> >>)
BatchFiles   == Batch(2, <<TransferA, TransferB>>, << <<"f", "2">>, <<"f", "1">> >>)
BatchBadDate == Batch(1, <<TransferBad>>, << <<"f", "1">> >>)
BatchInvalid == Batch(-1, <<>>, <<>>)

\* BatchTwo and BatchFiles in another order
BatchTwoSwapped   == Batch(2, <<TransferB, TransferA>>, << <<"f", "1">> >>)
BatchFilesSwapped == Batch(2, <<TransferB, TransferA>>, << <<"f", "1">>, <<"f", "2">> >>)

\* two transfers of one vehicle to one driver at different times, both orders
BatchSameKey        == Batch(2, <<TransferA, TransferALater>>, << <<"f", "1">> >>)
BatchSameKeySwapped == Batch(2, <<TransferALater, TransferA>>, << <<"f", "1">> >>)

\* BatchOne with other values of transfersCount: 2, 10 and 1.5
BatchOneCountTwo  == Batch(2, <<TransferA>>, << <<"f", "1">> >>)
BatchOneCountTen  == Batch(10, <<TransferA>>, << <<"f", "1">> >>)
BatchOneCountHalf == Batch(HalfTag + 1, <<TransferA>>, << <<"f", "1">> >>)

Batches ==
    {BatchEmpty, BatchOne, BatchTwo, BatchOther, BatchFiles, BatchBadDate,
     BatchInvalid, BatchTwoSwapped, BatchFilesSwapped, BatchSameKey,
     BatchSameKeySwapped, BatchOneCountTwo, BatchOneCountTen, BatchOneCountHalf}

\* generateDataHash on the batches, instants and random strings of the model,
\* evaluated once
DataHash ==
    [data \in {b \in Batches : b.transfersCount >= 0}, timestamp \in StartInstant..MaxNow,
     random \in RandomStrings |-> generateDataHash(data, timestamp, random)]

(***************************************************************************)
(* State                                                                   *)
(***************************************************************************)
VARIABLES
    now,              \* the wall clock (new Date(), Date.now())
    utcOffset,        \* local time = UTC + utcOffset
    isConfigured,     \* EmailService.isConfigured
    daily_processing, \* Firestore collection: document id -> record
    sent_alerts,      \* Firestore collection: document id -> record
    pending_emails,   \* Firestore collection, as its number of documents
    pc,               \* per run: the await the run is suspended at
    today,            \* per run: `today` of checkAndSendDailyAlerts
    date,             \* per run: the date _checkAndSendForDate works on
    examined,         \* per run: what the ledger held when the date was examined
    ticks,            \* runs of checkAndSendDailyAlerts started so far
    overlapped,       \* history: a run started while another was in flight
    invoked,          \* history: calls of emailService.sendAlert per day
    delivered,        \* history: e-mails EmailJS accepted per day
    alertRuns,        \* history: completed sendDailyAlert calls per day
    alertFault,       \* history: a sent_alerts query or write has failed
    recordsWritten,   \* history: recordDailyProcessing calls that returned
    lastRecorded,     \* history: per day, the batch of the latest record written
    ret,              \* the latest return value of a ledger operation
    vehicles,         \* ChatUpload state: the vehicles loaded from the registry
    drivers,          \* ChatUpload state: the drivers loaded from the registry
    parsedTransfers,  \* ChatUpload state: the reconciled transfers on display
    edited,           \* history: the transfers handleManualMatch has changed
    selectedTransfers,\* TransferPreview state: the indexes that are ticked
    vehicleDocs,      \* Firestore collection vehicles: id -> currentDriverId
    transferDocs,     \* Firestore collection transfers, as its number of documents
    writes,           \* the updateDoc writes the client has issued, in order
    saving,           \* the list handleSaveTransfers is saving, if any
    isDevelopment,    \* import.meta.env.DEV
    mounted,          \* useAlertSystem: the component that uses the hook is mounted
    state,            \* useAlertSystem state: checking, alertsSent, error
    intervalRef,      \* useAlertSystem: the interval armed, as its callback's closure
    timeouts,         \* the setTimeout callbacks still pending, as their closures
    inFlight,         \* the calls of checkAndSendDailyAlerts the hook awaits
    dateProp,         \* useDailyProcessingCheck: the date of the latest render
    checkState,       \* useDailyProcessingCheck state
    checkRequests     \* the dates of the checkDailyProcessing calls awaited

vars ==
    <<now, utcOffset, isConfigured, daily_processing, sent_alerts,
      pending_emails, pc, today, date, examined, ticks, overlapped, invoked,
      delivered, alertRuns, alertFault, recordsWritten, lastRecorded, ret,
      vehicles, drivers, parsedTransfers, edited, selectedTransfers,
      vehicleDocs, transferDocs, writes, saving, isDevelopment, mounted,
      state, intervalRef, timeouts, inFlight, dateProp, checkState,
      checkRequests>>

clockVars == <<now, utcOffset, isConfigured>>

runVars == <<pc, today, date, examined, ticks, overlapped>>

alertVars ==
    <<sent_alerts, pending_emails, invoked, delivered, alertRuns, alertFault>>

ledgerVars == <<daily_processing, recordsWritten, lastRecorded, ret>>

uploadVars == <<vehicles, drivers, parsedTransfers, edited>>

commitVars == <<selectedTransfers, vehicleDocs, transferDocs, writes, saving>>

hookVars == <<isDevelopment, mounted, state, intervalRef, timeouts, inFlight>>

checkVars == <<dateProp, checkState, checkRequests>>

pageVars == <<commitVars, hookVars, checkVars>>

\* snapshot.docs[0] of an empty snapshot, lastProcessing: null
NoRecord == [date |-> InvalidDate]

NoBatch == [transfersCount |-> InvalidDate]

NoReturn == [op |-> "none"]

\* no digest was computed
NoHash == <<>>

NotExamined == [hadRecord |-> FALSE, genuine |-> FALSE]

\* currentDriverId: null
NoDriver == "null"

\* the vehicles collection before the session: one vehicle is assigned
FleetAssignment ==
    [v \in {"v1", "v2", "v3", "v4"} |-> IF v = "v2" THEN "d1" ELSE NoDriver]

\* handleSaveTransfers is not running (loading is false)
NotSaving == [transfers |-> <<>>]

\* useState of useAlertSystem (lastCheck and isConfigured are left out)
InitialState == [checking |-> FALSE, alertsSent |-> 0, error |-> FALSE]

\* intervalRef.current: null, or an interval that has been cleared
NoTimer == [armed |-> FALSE]

\* date: null or undefined
NoDate == NoDateTime - 1

\* useState of useDailyProcessingCheck; `of` is the date the state answers
InitialCheckState ==
    [loading |-> TRUE, processed |-> FALSE, lastProcessing |-> NoRecord,
     error |-> FALSE, of |-> NoDate]

(***************************************************************************)
(* AlertService: pure parts                                                *)
(***************************************************************************)
\* Date.prototype.getDay, in local time (day 0 of the model is a Sunday)
getDay(t) == ((t + utcOffset) \div HoursPerDay) % 7

\* Date.prototype.getHours, in local time
getHours(t) == (t + utcOffset) % HoursPerDay

\* _validateProcessingData: an object whose transfersCount is a number >= 0
_validateProcessingData(data) == data.transfersCount >= 0

\* _shouldSendAlert: diffDays = Math.ceil((new Date() - date) / one day)
_shouldSendAlert(d, at) ==
    LET diffTime == at - d
        diffDays == (diffTime + (HoursPerDay - 1)) \div HoursPerDay
    IN  getDay(d) \in ALERT_DAYS /\ diffDays >= 1

\* _shouldCheckToday
_shouldCheckToday(t) ==
    getDay(t) \in ALERT_DAYS /\ getHours(t) >= DEFAULT_ALERT_HOUR

\* the documents of daily_processing with date == dateStr
ProcessingDocs(dateStr) ==
    {id \in DOMAIN daily_processing : daily_processing[id].date = dateStr}

\* query(where date == dateStr, orderBy timestamp desc, limit 1)
LatestProcessing(dateStr) ==
    LET id == CHOOSE i \in ProcessingDocs(dateStr) :
                \A j \in ProcessingDocs(dateStr) :
                    daily_processing[j].timestamp <= daily_processing[i].timestamp
    IN  daily_processing[id]

\* the catch block of checkDailyProcessing
CheckFailed ==
    [processed |-> FALSE, lastProcessing |-> NoRecord, shouldAlert |-> TRUE,
     error |-> TRUE]

\* checkDailyProcessing(date), called at instant `at`; queryFails: getDocs rejects
checkDailyProcessing(d, at, queryFails) ==
    IF ~_validateDate(d) \/ queryFails THEN CheckFailed
    ELSE IF ProcessingDocs(_formatDateString(d)) = {}
    THEN [processed |-> FALSE, lastProcessing |-> NoRecord,
          shouldAlert |-> _shouldSendAlert(d, at), error |-> FALSE]
    ELSE [processed |-> TRUE,
          lastProcessing |-> LatestProcessing(_formatDateString(d)),
          shouldAlert |-> FALSE, error |-> FALSE]

\* a faulty _compareProcessingData that finds no difference
_compareNothing(oldData, newData) == <<>>

\* _compareProcessingData
_compareProcessingData(oldData, newData) ==
    (IF oldData.transfersProcessed # newData.transfersCount
     THEN << [type |-> "transfers_count", old |-> oldData.transfersProcessed,
              new |-> newData.transfersCount] >>
     ELSE <<>>) \o
    (IF SortStrings(oldData.filesProcessed) # SortStrings(newData.filesProcessed)
     THEN << [type |-> "files_processed", old |-> oldData.filesProcessed,
              new |-> newData.filesProcessed] >>
     ELSE <<>>)

\* the catch block of detectChanges
DetectFailed ==
    [hasChanges |-> TRUE, isFirstProcessing |-> TRUE, changes |-> <<>>,
     recommendation |-> "Procesar - Error en comparacion", error |-> TRUE]

\* a faulty detectChanges that never looks at the ledger's answer
detectChangesAlwaysFirst(existing, newData, newHash) ==
    [hasChanges |-> TRUE, isFirstProcessing |-> TRUE, changes |-> <<>>,
     recommendation |-> "FIRST_PROCESSING", error |-> FALSE]

\* the result of detectChanges once the ledger has answered with `existing`
\* and the new data hashes to newHash
detectChangesResult(existing, newData, newHash) ==
    IF ~existing.processed
    THEN [hasChanges |-> TRUE, isFirstProcessing |-> TRUE, changes |-> <<>>,
          recommendation |-> "FIRST_PROCESSING", error |-> FALSE]
    ELSE IF existing.lastProcessing.hash = newHash
    THEN [hasChanges |-> FALSE, isFirstProcessing |-> FALSE, changes |-> <<>>,
          recommendation |-> "NO_CHANGES_DETECTED", error |-> FALSE]
    ELSE [hasChanges |-> TRUE, isFirstProcessing |-> FALSE,
          changes |-> _compareProcessingData(existing.lastProcessing, newData),
          recommendation |-> "CHANGES_DETECTED", error |-> FALSE]

\* the document recordDailyProcessing builds
processingRecord(d, data, hash) ==
    [date |-> _formatDateString(d), timestamp |-> now,
     transfersProcessed |-> data.transfersCount,
     filesProcessed |-> data.filesProcessed,
     source |-> data.source, hash |-> hash]

\* a faulty setDoc that loses the document
setDocLost(coll, id, record) == coll

\* setDoc(doc(db, collection, id), record): creates or replaces document id
setDoc(coll, id, record) ==
    [i \in DOMAIN coll \cup {id} |-> IF i = id THEN record ELSE coll[i]]

\* a faulty _checkAlertSent that never finds the document
_checkAlertSentNever(dateStr, queryFails) == FALSE

\* _checkAlertSent: is there a sent_alerts document for (dateStr,
\* daily_processing)?  A failed query is answered with false.
_checkAlertSent(dateStr, queryFails) ==
    IF queryFails THEN FALSE
    ELSE \E id \in DOMAIN sent_alerts :
            /\ sent_alerts[id].date = dateStr
            /\ sent_alerts[id].type = DAILY_PROCESSING

(***************************************************************************)
(* Initial state                                                           *)
(***************************************************************************)
Init ==
    /\ now = StartInstant
    /\ utcOffset \in UtcOffsets
    /\ isConfigured \in BOOLEAN
    /\ daily_processing = <<>>
    /\ sent_alerts = <<>>
    /\ pending_emails = 0
    /\ pc = [r \in Runs |-> "idle"]
    /\ today = [r \in Runs |-> InvalidDate]
    /\ date = [r \in Runs |-> InvalidDate]
    /\ examined = [r \in Runs |-> NotExamined]
    /\ ticks = 0
    /\ overlapped = FALSE
    /\ invoked = [d \in Days |-> 0]
    /\ delivered = [d \in Days |-> 0]
    /\ alertRuns = [d \in Days |-> 0]
    /\ alertFault = FALSE
    /\ recordsWritten = 0
    /\ lastRecorded = [d \in Days |-> NoBatch]
    /\ ret = NoReturn
    /\ vehicles = <<>>
    /\ drivers = <<>>
    /\ parsedTransfers = <<>>
    /\ edited = {}
    /\ selectedTransfers = <<>>
    /\ vehicleDocs = FleetAssignment
    /\ transferDocs = 0
    /\ writes = <<>>
    /\ saving = NotSaving
    /\ isDevelopment \in BOOLEAN
    /\ mounted = FALSE
    /\ state = InitialState
    /\ intervalRef = NoTimer
    /\ timeouts = {}
    /\ inFlight = <<>>
    /\ dateProp = NoDate
    /\ checkState = InitialCheckState
    /\ checkRequests = {}

(***************************************************************************)
(* The clock                                                               *)
(***************************************************************************)
ClockAdvance ==
    /\ now < MaxNow
    /\ now' = now + 1
    /\ UNCHANGED <<utcOffset, isConfigured>>
    /\ UNCHANGED <<runVars, alertVars, ledgerVars, uploadVars, pageVars>>

(***************************************************************************)
(* checkAndSendDailyAlerts, one action per await                           *)
(***************************************************************************)
\* _checkAndSendForDate(date) has returned: go on with today when
\* _shouldCheckToday(today) and yesterday was the date, else return
Continue(r) ==
    IF date[r] # today[r] /\ _shouldCheckToday(today[r])
    THEN /\ pc' = [pc EXCEPT ![r] = "checkDailyProcessing"]
         /\ date' = [date EXCEPT ![r] = today[r]]
         /\ today' = today
         /\ examined' = [examined EXCEPT ![r] = NotExamined]
    ELSE /\ pc' = [pc EXCEPT ![r] = "idle"]
         /\ date' = [date EXCEPT ![r] = InvalidDate]
         /\ today' = [today EXCEPT ![r] = InvalidDate]
         /\ examined' = [examined EXCEPT ![r] = NotExamined]

\* sendDailyAlert(date) has returned (true or false)
SendDailyAlertReturns(r) ==
    /\ alertRuns' =
         IF examined[r].genuine
         THEN [alertRuns EXCEPT ![_formatDateString(date[r])] = @ + 1]
         ELSE alertRuns
    /\ Continue(r)

\* checkAndSendDailyAlerts is called: today = new Date(), yesterday = today - 1 day,
\* up to the getDocs of checkDailyProcessing(yesterday)
StartCheck(r) ==
    /\ pc[r] = "idle"
    /\ \A o \in Runs : RunOrder[o] < RunOrder[r] => pc[o] # "idle"
    /\ ticks < MaxTicks
    /\ ticks' = ticks + 1
    /\ overlapped' = (overlapped \/ \E o \in Runs : pc[o] # "idle")
    /\ today' = [today EXCEPT ![r] = now]
    /\ date' = [date EXCEPT ![r] = now - HoursPerDay]
    /\ pc' = [pc EXCEPT ![r] = "checkDailyProcessing"]
    /\ UNCHANGED <<examined, clockVars, alertVars, ledgerVars, uploadVars, pageVars>>

\* the getDocs of checkDailyProcessing answers, _checkAndSendForDate decides
CheckDailyProcessingAnswers(r) ==
    /\ pc[r] = "checkDailyProcessing"
    /\ \E queryFails \in BOOLEAN :
         LET processing == checkDailyProcessing(date[r], now, queryFails)
         IN  IF ~processing.processed /\ processing.shouldAlert
             THEN /\ pc' = [pc EXCEPT ![r] = "_checkAlertSent"]
                  /\ examined' = [examined EXCEPT ![r] =
                        [hadRecord |-> ProcessingDocs(_formatDateString(date[r])) # {},
                         genuine   |-> ~processing.error]]
                  /\ UNCHANGED <<today, date>>
             ELSE Continue(r)
    /\ UNCHANGED <<ticks, overlapped, clockVars, alertVars, ledgerVars, uploadVars, pageVars>>

\* the getDocs of _checkAlertSent answers; sendDailyAlert returns false when
\* the alert was already sent
CheckAlertSentAnswers(r) ==
    /\ pc[r] = "_checkAlertSent"
    /\ \E queryFails \in BOOLEAN :
         /\ alertFault' = (alertFault \/ queryFails)
         /\ IF _checkAlertSent(_formatDateString(date[r]), queryFails)
            THEN SendDailyAlertReturns(r)
            ELSE /\ pc' = [pc EXCEPT ![r] = "sendAlert"]
                 /\ UNCHANGED <<today, date, examined, alertRuns>>
    /\ UNCHANGED <<sent_alerts, pending_emails, invoked, delivered>>
    /\ UNCHANGED <<ticks, overlapped, clockVars, ledgerVars, uploadVars, pageVars>>

\* _saveForManualSending: one more pending_emails document (a failure of this
\* write is logged and swallowed, and changes nothing; it is not modelled)
SaveForManualSending ==
    pending_emails' = pending_emails + 1

\* emailService.sendAlert(emailData) is called and resolves; it never rejects
SendAlert(r) ==
    /\ pc[r] = "sendAlert"
    /\ invoked' = [invoked EXCEPT ![_formatDateString(date[r])] = @ + 1]
    /\ \E fetchFails \in BOOLEAN :
         IF isConfigured /\ ~fetchFails
         THEN /\ delivered' = [delivered EXCEPT
                                 ![_formatDateString(date[r])] = @ + 1]
              /\ UNCHANGED pending_emails
         ELSE /\ SaveForManualSending
              /\ UNCHANGED delivered
    /\ pc' = [pc EXCEPT ![r] = "_recordAlertSent"]
    /\ UNCHANGED <<sent_alerts, alertRuns, alertFault>>
    /\ UNCHANGED <<today, date, examined, ticks, overlapped, clockVars, ledgerVars, uploadVars, pageVars>>

\* the document _recordAlertSent writes, under the id `daily_${dateStr}`
alertRecord(dateStr) ==
    [date |-> dateStr, type |-> DAILY_PROCESSING, sentAt |-> now]

\* _recordAlertSent: setDoc, a failure is logged and swallowed; then
\* sendDailyAlert returns true
RecordAlertSent(r) ==
    /\ pc[r] = "_recordAlertSent"
    /\ \E writeFails \in BOOLEAN :
         IF writeFails
         THEN /\ alertFault' = TRUE
              /\ UNCHANGED sent_alerts
         ELSE /\ sent_alerts' = setDoc(sent_alerts, _formatDateString(date[r]),
                                       alertRecord(_formatDateString(date[r])))
              /\ UNCHANGED alertFault
    /\ SendDailyAlertReturns(r)
    /\ UNCHANGED <<pending_emails, invoked, delivered>>
    /\ UNCHANGED <<ticks, overlapped, clockVars, ledgerVars, uploadVars, pageVars>>

(***************************************************************************)
(* Ledger operations called by the operator's pages and hooks              *)
(***************************************************************************)
\* the dates a caller passes: now, an hour ago, a day ago, an invalid Date
DateInputs == {now, now - 1, now - HoursPerDay, InvalidDate}

\* the batches the operator's pages pass
LedgerBatches == {BatchOne, BatchTwo, BatchBadDate, BatchInvalid}

\* recordDailyProcessing(date, processingData): returns the record written,
\* or throws (validation, setDoc) and leaves the ledger as it was
RecordDailyProcessing(d, data) ==
    /\ recordsWritten < MaxRecords
    /\ IF ~_validateDate(d) \/ ~_validateProcessingData(data)
       THEN /\ ret' = [op |-> "recordDailyProcessing", threw |-> TRUE,
                        date |-> d, data |-> data]
            /\ UNCHANGED <<daily_processing, recordsWritten, lastRecorded>>
       ELSE \E random \in RandomStrings, writeFails \in BOOLEAN :
              LET record == processingRecord(d, data, DataHash[data, now, random])
                  docId  == <<_formatDateString(d), now>>
              IN  IF writeFails
                  THEN /\ ret' = [op |-> "recordDailyProcessing", threw |-> TRUE,
                        date |-> d, data |-> data]
                       /\ UNCHANGED <<daily_processing, recordsWritten, lastRecorded>>
                  ELSE /\ daily_processing' = setDoc(daily_processing, docId, record)
                       /\ recordsWritten' = recordsWritten + 1
                       /\ lastRecorded' =
                            [lastRecorded EXCEPT ![_formatDateString(d)] = data]
                       /\ ret' = [op |-> "recordDailyProcessing", threw |-> FALSE,
                                  date |-> d, data |-> data,
                                  record |-> record]
    /\ UNCHANGED <<clockVars, runVars, alertVars, uploadVars, pageVars>>

\* detectChanges(date, newData)
DetectChanges(d, data) ==
    /\ IF ~_validateDate(d) \/ ~_validateProcessingData(data)
       THEN ret' = [op |-> "detectChanges", date |-> d, data |-> data,
                    queryFailed |-> FALSE,
                    hadRecord |-> (_validateDate(d) /\
                                   ProcessingDocs(_formatDateString(d)) # {}),
                    hash |-> NoHash,
                    result |-> DetectFailed]
       ELSE \E queryFails \in BOOLEAN, random \in RandomStrings :
              LET existing == checkDailyProcessing(d, now, queryFails)
                  newHash  == IF existing.processed
                              THEN DataHash[data, now, random] ELSE NoHash
              IN  ret' = [op |-> "detectChanges", date |-> d, data |-> data,
                          queryFailed |-> queryFails,
                          hadRecord |-> ProcessingDocs(_formatDateString(d)) # {},
                          hash |-> newHash,
                          result |-> detectChangesResult(existing, data, newHash)]
    /\ UNCHANGED <<daily_processing, recordsWritten, lastRecorded>>
    /\ UNCHANGED <<clockVars, runVars, alertVars, uploadVars, pageVars>>

\* checkDailyProcessing(date), as useDailyProcessingCheck calls it
CheckDailyProcessing(d) ==
    /\ \E queryFails \in BOOLEAN :
         ret' = [op |-> "checkDailyProcessing", date |-> d, at |-> now,
                 queryFailed |-> queryFails,
                 hadRecord |-> (_validateDate(d) /\
                                ProcessingDocs(_formatDateString(d)) # {}),
                 result |-> checkDailyProcessing(d, now, queryFails)]
    /\ UNCHANGED <<daily_processing, recordsWritten, lastRecorded>>
    /\ UNCHANGED <<clockVars, runVars, alertVars, uploadVars, pageVars>>

(***************************************************************************)
(* ChatUpload and TransferPreview: reconciliation with the registry        *)
(***************************************************************************)
\* a match that is null or undefined
NoMatch == [resolved |-> FALSE]

\* suggestions.vehicle, .fromDriver, .toDriver when they are null
NoSuggestions == [none |-> TRUE]

\* the registry in Firestore: nothing yet, or a fleet with four plates that
\* start alike and four drivers with the same first name
FleetVehicles ==
    << [id |-> "v1", plate |-> <<"A", "B", "C", "-", "1", "2", "3">>], [id |-> "v2", plate |-> <<"A", "B", "C", "-", "1", "2", "4">>],
       [id |-> "v3", plate |-> <<"A", "B", "C", "1", "2", "5">>], [id |-> "v4", plate |-> <<"a", "b", "c", " ", "1", "2", "6">>] >>

FleetDrivers ==
    << [id |-> "d1", name |-> <<"J", "u", "a", "n", " ", "P">>], [id |-> "d2", name |-> <<"J", "u", "a", "n", " ", "G">>],
       [id |-> "d3", name |-> <<"J", "u", "a", "n", " ", "D">>], [id |-> "d4", name |-> <<"J", "u", "a", "n", " ", "R">>],
       [id |-> "d5", name |-> <<"A", "n", "a">>] >>

Registries ==
    {[vehicles |-> <<>>, drivers |-> <<>>],
     [vehicles |-> FleetVehicles, drivers |-> FleetDrivers]}

\* the candidates the parser hands over
Candidate(vehicleId, fromDriver, toDriver) ==
    [vehicleId |-> vehicleId, fromDriver |-> fromDriver, toDriver |-> toDriver]

CandidateExact      == Candidate(<<"A", "B", "C", "-", "1", "2", "3">>, Null, <<"J", "u", "a", "n", " ", "P">>)
CandidateSpaced     == Candidate(<<"A", "B", "C", " ", "1", "2", "6">>, Null, <<"A", "n", "a">>)
CandidateUnknownCar == Candidate(<<"A", "B", "C", "-", "9", "9", "9">>, Null, <<"J", "u", "a", "n">>)
CandidateNamesake   == Candidate(<<"X", "Y", "Z">>, <<"A", "n", "a", " ", "M">>, <<"J", "u", "a", "n", " ", "C", "a", "r", "l", "o", "s">>)
CandidateUnknownMan == Candidate(<<"A", "B", "C", "1", "2", "3">>, Null, <<"Z", "e", "d">>)

Uploads ==
    {<<CandidateExact, CandidateUnknownCar>>,
     <<CandidateNamesake, CandidateUnknownMan>>,
     <<CandidateSpaced>>}

\* Array.prototype.find: the first element with the property, else undefined
Find(list, P(_)) ==
    IF \E i \in DOMAIN list : P(list[i])
    THEN list[CHOOSE i \in DOMAIN list :
                P(list[i]) /\ \A j \in 1..(i - 1) : ~P(list[j])]
    ELSE NoMatch

\* Array.prototype.slice(0, n)
slice0(list, n) == SubSeq(list, 1, IF Len(list) < n THEN Len(list) ELSE n)

\* !value for a string that may be null
Falsy(value) == value = Null \/ value = <<>>

\* findVehicleByIdentifier
findVehicleByIdentifier(identifier) ==
    IF Falsy(identifier) THEN NoMatch
    ELSE LET cleanId == Without(toLowerCase(identifier), {" "})
         IN  Find(vehicles, LAMBDA vehicle :
                \/ Without(toLowerCase(vehicle.plate), {" "}) = cleanId
                \/ Without(toLowerCase(vehicle.plate), {"-", " "}) =
                      Without(cleanId, {"-"}))

\* a faulty findDriverByName that takes the first driver of the registry
findAnyDriver(name) ==
    IF drivers = <<>> THEN NoMatch ELSE drivers[1]

\* findDriverByName
findDriverByName(name) ==
    IF Falsy(name) THEN NoMatch
    ELSE LET cleanName == trim(toLowerCase(name))
         IN  Find(drivers, LAMBDA driver :
                \/ includes(toLowerCase(driver.name), cleanName)
                \/ includes(cleanName, FirstWord(toLowerCase(driver.name))))

\* a faulty getSimilarVehicles without the slice(0, 3)
getAllSimilarVehicles(identifier) ==
    IF Falsy(identifier) THEN <<>>
    ELSE LET cleanId == toLowerCase(identifier)
         IN  SelectSeq(vehicles, LAMBDA vehicle :
                \/ includes(toLowerCase(vehicle.plate), substring0(cleanId, 3))
                \/ includes(cleanId, substring0(toLowerCase(vehicle.plate), 3)))

\* getSimilarVehicles
getSimilarVehicles(identifier) ==
    IF Falsy(identifier) THEN <<>>
    ELSE LET cleanId == toLowerCase(identifier)
         IN  slice0(SelectSeq(vehicles, LAMBDA vehicle :
                \/ includes(toLowerCase(vehicle.plate), substring0(cleanId, 3))
                \/ includes(cleanId, substring0(toLowerCase(vehicle.plate), 3))), 3)

\* getSimilarDrivers
getSimilarDrivers(name) ==
    IF Falsy(name) THEN <<>>
    ELSE LET cleanName == toLowerCase(name)
         IN  slice0(SelectSeq(drivers, LAMBDA driver :
                \/ includes(toLowerCase(driver.name), FirstWord(cleanName))
                \/ includes(cleanName, FirstWord(toLowerCase(driver.name)))), 3)

\* suggestions.x: null for a resolved role, else the similar entries
Suggest(match, similar) ==
    IF match # NoMatch THEN NoSuggestions ELSE [list |-> similar]

\* the body of the map of enrichTransfers
enrichTransfer(transfer) ==
    LET vehicle    == findVehicleByIdentifier(transfer.vehicleId)
        fromDriver == IF Falsy(transfer.fromDriver) THEN NoMatch
                      ELSE findDriverByName(transfer.fromDriver)
        toDriver   == findDriverByName(transfer.toDriver)
    IN  [vehicleId       |-> transfer.vehicleId,
         fromDriver      |-> transfer.fromDriver,
         toDriver        |-> transfer.toDriver,
         vehicleMatch    |-> vehicle,
         fromDriverMatch |-> fromDriver,
         toDriverMatch   |-> toDriver,
         isValid         |-> (vehicle # NoMatch /\ toDriver # NoMatch),
         suggestions     |->
            [vehicle    |-> Suggest(vehicle, getSimilarVehicles(transfer.vehicleId)),
             fromDriver |-> Suggest(fromDriver, getSimilarDrivers(transfer.fromDriver)),
             toDriver   |-> Suggest(toDriver, getSimilarDrivers(transfer.toDriver))]]

\* enrichTransfers
enrichTransfers(transfers) ==
    [i \in DOMAIN transfers |-> enrichTransfer(transfers[i])]

\* list.find(x => x.id === selectedId)
FindById(list, selectedId) == Find(list, LAMBDA x : x.id = selectedId)

\* handleManualMatch up to the recomputation: the match of `type` is replaced
replaceMatch(transfer, type, selectedId) ==
    IF type = "vehicle"
    THEN [transfer EXCEPT !.vehicleMatch = FindById(vehicles, selectedId)]
    ELSE IF type = "fromDriver"
    THEN [transfer EXCEPT !.fromDriverMatch = FindById(drivers, selectedId)]
    ELSE [transfer EXCEPT !.toDriverMatch = FindById(drivers, selectedId)]

\* the updatedTransfer of handleManualMatch: isValid is recomputed
updatedTransfer(transfer, type, selectedId) ==
    LET updated == replaceMatch(transfer, type, selectedId)
    IN  [updated EXCEPT !.isValid =
            (updated.vehicleMatch # NoMatch /\ updated.toDriverMatch # NoMatch)]

\* loadData, called once when the page is mounted: the registry is read into
\* the state of the page (an upload can come before that)
LoadData ==
    /\ vehicles = <<>> /\ drivers = <<>>
    /\ \E registry \in Registries :
         /\ vehicles' = registry.vehicles
         /\ drivers' = registry.drivers
    /\ UNCHANGED <<parsedTransfers, edited>>
    /\ UNCHANGED <<clockVars, runVars, alertVars, ledgerVars, pageVars>>

\* list.map((_, index) => index): the indexes 0 .. length - 1
Indexes(list) == [i \in DOMAIN list |-> i - 1]

\* transfers.map((transfer, index) => ...).filter(valid).map(index): the
\* positions of the valid transfers
validIndexes(transfers) ==
    SelectSeq(Indexes(transfers), LAMBDA index : transfers[index + 1].isValid)

\* the initial state of selectedTransfers:
\* transfers.filter(t => t.isValid).map((_, index) => index)
initialSelectedTransfers(transfers) ==
    Indexes(SelectSeq(transfers, LAMBDA t : t.isValid))

\* handleFileUpload with a file the parser finds `transfers` in
HandleFileUpload(transfers) ==
    /\ parsedTransfers' = enrichTransfers(transfers)
    /\ edited' = {}
    /\ selectedTransfers' = initialSelectedTransfers(parsedTransfers')
    /\ UNCHANGED <<vehicles, drivers>>
    /\ UNCHANGED <<vehicleDocs, transferDocs, writes, saving>>
    /\ UNCHANGED <<clockVars, runVars, alertVars, ledgerVars, hookVars, checkVars>>

\* the selectable ids of TransferPreview: the options of the three selects
\* ("" is the placeholder option)
SelectableIds == {"", "v1", "d1"}

\* handleManualMatch(transferIndex, type, selectedId) and onUpdateTransfer
HandleManualMatch(transferIndex, type, selectedId) ==
    /\ transferIndex \in DOMAIN parsedTransfers
    /\ parsedTransfers' =
         [parsedTransfers EXCEPT ![transferIndex] =
            updatedTransfer(@, type, selectedId)]
    /\ edited' = edited \cup {transferIndex}
    /\ UNCHANGED <<vehicles, drivers>>
    /\ UNCHANGED <<clockVars, runVars, alertVars, ledgerVars, pageVars>>

(***************************************************************************)
(* TransferPreview: the selection; ChatUpload: the commit of a batch;      *)
(* Vehicles: assignments made by hand                                      *)
(***************************************************************************)
\* how many documents the transfers collection may hold
MaxTransferDocs == 2

\* a second message about the first plate of the fleet, to another driver
CandidateExactToAna == Candidate(<<"A", "B", "C", "-", "1", "2", "3">>, Null, <<"A", "n", "a">>)

\* the files uploaded before a commit: two transfers of one vehicle, an
\* unresolved transfer before a resolved one, two vehicles to one driver
CommitUploads ==
    {<<CandidateExact, CandidateExactToAna>>,
     <<CandidateUnknownCar, CandidateExact>>,
     <<CandidateExactToAna, CandidateSpaced>>}

\* transfersToSave of handleSave
transfersToSave(selected, transfers) ==
    SelectSeq([k \in DOMAIN selected |-> transfers[selected[k] + 1]],
              LAMBDA transfer : transfer.isValid)

\* selectedValidCount
selectedValidCount(selected, transfers) ==
    Len(SelectSeq(selected, LAMBDA index : transfers[index + 1].isValid))

\* a faulty vehicleUpdates that issues the updates last to first
vehicleUpdatesBackwards(list) ==
    [k \in DOMAIN list |->
        [vehicleId   |-> list[Len(list) + 1 - k].vehicleMatch.id,
         newDriverId |-> list[Len(list) + 1 - k].toDriverMatch.id]]

\* vehicleUpdates of handleSaveTransfers: one update per saved transfer, in
\* the order of the list
vehicleUpdates(list) ==
    [k \in DOMAIN list |->
        [vehicleId   |-> list[k].vehicleMatch.id,
         newDriverId |-> list[k].toDriverMatch.id]]

\* handleTransferToggle(index); the checkbox of an unresolved transfer is
\* disabled
HandleTransferToggle(index) ==
    /\ index + 1 \in DOMAIN parsedTransfers
    /\ parsedTransfers[index + 1].isValid
    /\ selectedTransfers' =
         IF \E k \in DOMAIN selectedTransfers : selectedTransfers[k] = index
         THEN SelectSeq(selectedTransfers, LAMBDA i : i # index)
         ELSE Append(selectedTransfers, index)
    /\ UNCHANGED <<vehicleDocs, transferDocs, writes, saving>>
    /\ UNCHANGED <<clockVars, runVars, alertVars, ledgerVars, uploadVars, hookVars, checkVars>>

\* handleSelectAll
HandleSelectAll ==
    /\ parsedTransfers # <<>>
    /\ selectedTransfers' = validIndexes(parsedTransfers)
    /\ UNCHANGED <<vehicleDocs, transferDocs, writes, saving>>
    /\ UNCHANGED <<clockVars, runVars, alertVars, ledgerVars, uploadVars, hookVars, checkVars>>

\* handleDeselectAll
HandleDeselectAll ==
    /\ parsedTransfers # <<>>
    /\ selectedTransfers' = <<>>
    /\ UNCHANGED <<vehicleDocs, transferDocs, writes, saving>>
    /\ UNCHANGED <<clockVars, runVars, alertVars, ledgerVars, uploadVars, hookVars, checkVars>>

\* handleSaveTransfers(list) up to the await of Promise.all: the transfers
\* are created one after the other (the first `created` creations succeed),
\* then all the vehicle updates are issued at once.  Nothing is written to
\* daily_processing.
HandleSaveTransfers(list) ==
    /\ saving = NotSaving
    /\ transferDocs + Len(list) <= MaxTransferDocs
    /\ IF list = <<>>
       THEN /\ ret' = [op |-> "handleSaveTransfers", success |-> FALSE,
                       transfers |-> list, at |-> now, pending |-> FALSE]
            /\ UNCHANGED <<transferDocs, writes, saving>>
       ELSE \E created \in 0..Len(list) :
              /\ transferDocs' = transferDocs + created
              /\ IF created < Len(list)
                 THEN /\ ret' = [op |-> "handleSaveTransfers",
                                 success |-> FALSE, transfers |-> list,
                                 at |-> now, pending |-> FALSE]
                      /\ UNCHANGED <<writes, saving>>
                 ELSE /\ writes' = writes \o vehicleUpdates(list)
                      /\ saving' = [transfers |-> list]
                      /\ ret' = [op |-> "handleSaveTransfers",
                                 success |-> FALSE, transfers |-> list,
                                 at |-> now, pending |-> TRUE]
    /\ UNCHANGED <<selectedTransfers, vehicleDocs>>
    /\ UNCHANGED <<daily_processing, recordsWritten, lastRecorded>>
    /\ UNCHANGED <<clockVars, runVars, alertVars, uploadVars, hookVars, checkVars>>

\* handleSave of TransferPreview: onSave(transfersToSave); the button is
\* disabled while nothing valid is selected
HandleSave ==
    /\ parsedTransfers # <<>>
    /\ selectedValidCount(selectedTransfers, parsedTransfers) # 0
    /\ HandleSaveTransfers(transfersToSave(selectedTransfers, parsedTransfers))

\* FirebaseService.update -> updateDoc: the client sends its writes in the
\* order they were issued; the server applies the oldest, or rejects it,
\* and then Promise.all rejects and handleSaveTransfers reports the error
UpdateDoc ==
    /\ writes # <<>>
    /\ writes' = Tail(writes)
    /\ \E writeFails \in BOOLEAN :
         IF writeFails
         THEN /\ UNCHANGED vehicleDocs
              /\ IF saving = NotSaving
                 THEN UNCHANGED <<saving, ret>>
                 ELSE /\ saving' = NotSaving
                      /\ ret' = [op |-> "handleSaveTransfers",
                                 success |-> FALSE,
                                 transfers |-> saving.transfers, at |-> now, pending |-> FALSE]
         ELSE /\ vehicleDocs' =
                   [vehicleDocs EXCEPT ![Head(writes).vehicleId] =
                       Head(writes).newDriverId]
              /\ UNCHANGED <<saving, ret>>
    /\ UNCHANGED <<selectedTransfers, transferDocs>>
    /\ UNCHANGED <<daily_processing, recordsWritten, lastRecorded>>
    /\ UNCHANGED <<clockVars, runVars, alertVars, uploadVars, hookVars, checkVars>>

\* handleSaveTransfers after Promise.all has resolved: setSuccess,
\* setParsedTransfers([]), and TransferPreview is unmounted
SaveTransfersResolved ==
    /\ saving # NotSaving
    /\ writes = <<>>
    /\ ret' = [op |-> "handleSaveTransfers", success |-> TRUE,
               transfers |-> saving.transfers, at |-> now, pending |-> FALSE]
    /\ saving' = NotSaving
    /\ parsedTransfers' = <<>>
    /\ selectedTransfers' = <<>>
    /\ UNCHANGED <<vehicles, drivers, edited>>
    /\ UNCHANGED <<vehicleDocs, transferDocs, writes>>
    /\ UNCHANGED <<daily_processing, recordsWritten, lastRecorded>>
    /\ UNCHANGED <<clockVars, runVars, alertVars, hookVars, checkVars>>

\* handleAssignDriver(vehicleId, driverId) of the Vehicles page, which has
\* just loaded the collection: the other vehicles of the driver are cleared,
\* then the vehicle is updated; a rejected update leaves the catch block
HandleAssignDriver(vehicleId, driverId) ==
    /\ saving = NotSaving /\ writes = <<>>
    /\ \E updateFails \in BOOLEAN :
         IF updateFails
         THEN /\ UNCHANGED vehicleDocs
              /\ ret' = [op |-> "handleAssignDriver", success |-> FALSE]
         ELSE /\ vehicleDocs' =
                   [v \in DOMAIN vehicleDocs |->
                      IF v = vehicleId THEN driverId
                      ELSE IF driverId # NoDriver /\ vehicleDocs[v] = driverId
                      THEN NoDriver
                      ELSE vehicleDocs[v]]
              /\ ret' = [op |-> "handleAssignDriver", success |-> TRUE]
    /\ UNCHANGED <<selectedTransfers, transferDocs, writes, saving>>
    /\ UNCHANGED <<daily_processing, recordsWritten, lastRecorded>>
    /\ UNCHANGED <<clockVars, runVars, alertVars, uploadVars, hookVars, checkVars>>

\* handleSaveVehicle(vehicleData) for the vehicle being edited: the document
\* is updated with the fields of the form, currentDriverId among them
HandleSaveVehicle(editingVehicle, currentDriverId) ==
    /\ saving = NotSaving /\ writes = <<>>
    /\ \E updateFails \in BOOLEAN :
         IF updateFails
         THEN /\ UNCHANGED vehicleDocs
              /\ ret' = [op |-> "handleSaveVehicle", success |-> FALSE]
         ELSE /\ vehicleDocs' =
                   [vehicleDocs EXCEPT ![editingVehicle] = currentDriverId]
              /\ ret' = [op |-> "handleSaveVehicle", success |-> TRUE]
    /\ UNCHANGED <<selectedTransfers, transferDocs, writes, saving>>
    /\ UNCHANGED <<daily_processing, recordsWritten, lastRecorded>>
    /\ UNCHANGED <<clockVars, runVars, alertVars, uploadVars, hookVars, checkVars>>

(***************************************************************************)
(* useAlertSystem: the timers of the alert check.  A callback is the       *)
(* closure of the render that created it: it keeps the state.checking and  *)
(* state.alertsSent of that render.  A state update is followed at once by *)
(* the re-render and by the effects whose dependencies have changed.       *)
(***************************************************************************)
\* at most this many calls of checkAndSendDailyAlerts are awaited at a time
MaxInFlight == 2

\* state.alertsSent stays within this count
MaxAlertsSent == 1

\* the closures a performAlertCheck callback can have
Closures == [checking : BOOLEAN, alertsSent : 0..MaxAlertsSent]

\* getEnvironmentConfig().showAlertWidget: isDevelopment && SHOW_ALERT_WIDGET
showAlertWidget == isDevelopment

\* the performAlertCheck a render with state `st` creates
closureOf(st) == [checking |-> st.checking, alertsSent |-> st.alertsSent]

\* setupPeriodicCheck of a render whose performAlertCheck is `closure`, with
\* the timeouts `pending`: the interval is cleared; where the widget is shown
\* an interval and a timeout of 30 s are created
setupPeriodicCheck(closure, pending) ==
    IF ~showAlertWidget
    THEN [intervalRef |-> NoTimer, timeouts |-> pending]
    ELSE [intervalRef |-> closure, timeouts |-> pending \cup {closure}]

\* updateState(updates) giving newState, the re-render, and the effect of
\* [setupPeriodicCheck, cleanup] when performAlertCheck was created anew;
\* nothing happens to the state of a component that is gone
UpdateState(newState, pending) ==
    IF ~mounted
    THEN /\ timeouts' = pending
         /\ UNCHANGED <<state, intervalRef>>
    ELSE /\ state' = newState
         /\ IF closureOf(newState) = closureOf(state)
            THEN /\ timeouts' = pending
                 /\ UNCHANGED intervalRef
            ELSE LET timers == setupPeriodicCheck(closureOf(newState), pending)
                 IN  /\ intervalRef' = timers.intervalRef
                     /\ timeouts' = timers.timeouts

\* the component that uses the hook is mounted: first render and effect
MountHook ==
    /\ ~mounted /\ timeouts = {} /\ inFlight = <<>>
    /\ mounted' = TRUE
    /\ state' = InitialState
    /\ LET timers == setupPeriodicCheck(closureOf(InitialState), timeouts)
       IN  /\ intervalRef' = timers.intervalRef
           /\ timeouts' = timers.timeouts
    /\ ret' = NoReturn
    /\ UNCHANGED <<isDevelopment, inFlight>>
    /\ UNCHANGED <<daily_processing, recordsWritten, lastRecorded>>
    /\ UNCHANGED <<clockVars, runVars, alertVars, uploadVars, commitVars, checkVars>>

\* the component is unmounted: cleanup clears the interval
UnmountHook ==
    /\ mounted
    /\ mounted' = FALSE
    /\ state' = InitialState
    /\ intervalRef' = NoTimer
    /\ UNCHANGED <<isDevelopment, timeouts, inFlight>>
    /\ UNCHANGED <<clockVars, runVars, alertVars, ledgerVars, uploadVars, commitVars, checkVars>>

\* performAlertCheck(isManual) of the render `closure`, up to its await
PerformAlertCheck(closure, isManual, pending) ==
    /\ IF closure.checking
       THEN /\ ret' = [op |-> "performAlertCheck", isManual |-> isManual,
                       started |-> FALSE, mounted |-> mounted]
            /\ timeouts' = pending
            /\ UNCHANGED <<state, intervalRef, inFlight>>
       ELSE /\ Len(inFlight) < MaxInFlight
            /\ ret' = [op |-> "performAlertCheck", isManual |-> isManual,
                       started |-> TRUE, mounted |-> mounted]
            /\ inFlight' = Append(inFlight, closure)
            /\ UpdateState([state EXCEPT !.checking = TRUE, !.error = FALSE],
                           pending)
    /\ UNCHANGED <<isDevelopment, mounted>>
    /\ UNCHANGED <<daily_processing, recordsWritten, lastRecorded>>
    /\ UNCHANGED <<clockVars, runVars, alertVars, uploadVars, commitVars, checkVars>>

\* the callback of setInterval runs
IntervalFires ==
    /\ intervalRef # NoTimer
    /\ PerformAlertCheck(intervalRef, FALSE, timeouts)

\* the callback of a setTimeout(..., 30000) runs
TimeoutFires(closure) ==
    /\ closure \in timeouts
    /\ PerformAlertCheck(closure, FALSE, timeouts \ {closure})

\* actions.checkAlerts: the button calls the performAlertCheck of the
\* latest render
CheckAlerts ==
    /\ mounted
    /\ PerformAlertCheck(closureOf(state), TRUE, timeouts)

\* the i-th awaited checkAndSendDailyAlerts returns results with alertsSent
\* and errors, or throws: the rest of performAlertCheck
CheckReturns(i) ==
    /\ i \in DOMAIN inFlight
    /\ inFlight' = SubSeq(inFlight, 1, i - 1) \o
                   SubSeq(inFlight, i + 1, Len(inFlight))
    /\ \E threw \in BOOLEAN, alertsSent \in 0..1, errors \in BOOLEAN :
         /\ inFlight[i].alertsSent + alertsSent <= MaxAlertsSent
         /\ UpdateState(
              IF threw
              THEN [state EXCEPT !.checking = FALSE, !.error = TRUE]
              ELSE [checking   |-> FALSE,
                    alertsSent |-> inFlight[i].alertsSent + alertsSent,
                    error      |-> errors],
              timeouts)
    /\ UNCHANGED <<isDevelopment, mounted>>
    /\ UNCHANGED <<clockVars, runVars, alertVars, ledgerVars, uploadVars, commitVars, checkVars>>

(***************************************************************************)
(* useDailyProcessingCheck(date)                                           *)
(***************************************************************************)
\* checkProcessing up to its await: loading is set and the ledger is asked
\* about the date of the render that created the callback
checkProcessing(d) ==
    /\ checkState' = [checkState EXCEPT !.loading = TRUE, !.error = FALSE]
    /\ checkRequests' = checkRequests \cup {d}

\* the hook is rendered with another date: checkProcessing is created anew
\* and the effect calls it
UseDailyProcessingCheck(d) ==
    /\ d # dateProp
    /\ dateProp' = d
    /\ checkProcessing(d)
    /\ UNCHANGED <<clockVars, runVars, alertVars, ledgerVars, uploadVars, commitVars, hookVars>>

\* refetch: the checkProcessing of the latest render is called again
Refetch ==
    /\ dateProp # NoDate
    /\ checkProcessing(dateProp)
    /\ UNCHANGED dateProp
    /\ UNCHANGED <<clockVars, runVars, alertVars, ledgerVars, uploadVars, commitVars, hookVars>>

\* the awaited checkDailyProcessing(d) answers: the rest of checkProcessing
\* replaces the state, whatever the date of the latest render
CheckProcessingReturns(d) ==
    /\ d \in checkRequests
    /\ checkRequests' = checkRequests \ {d}
    /\ \E queryFails \in BOOLEAN :
         LET result == checkDailyProcessing(d, now, queryFails)
         IN  checkState' = [loading        |-> FALSE,
                            processed      |-> result.processed,
                            lastProcessing |-> result.lastProcessing,
                            error          |-> result.error,
                            of             |-> d]
    /\ UNCHANGED dateProp
    /\ UNCHANGED <<clockVars, runVars, alertVars, ledgerVars, uploadVars, commitVars, hookVars>>

(***************************************************************************)
(* Regular expressions: RegExp.prototype.exec as a backtracking matcher.   *)
(* A pattern is a sequence of nodes; a position is the index of the next   *)
(* character to read.                                                      *)
(***************************************************************************)
Letters == Range(LowerCaseLetters) \cup Range(UpperCaseLetters)

Digits == Range(DecimalDigits)

\* \s (the lines of the model hold no other white space than the space)
Whitespace == {" "}

\* \w
WordChars == Letters \cup Digits \cup {"_"}

\* . (the characters of the lines of the model; a line holds no "\n")
AnyChar == WordChars \cup Whitespace \cup {",", "-", ".", ":", "[", "]", "/"}

\* [A-Z0-9\-\s] under the i flag
PlateChars == Letters \cup Digits \cup {"-"} \cup Whitespace

\* [A-Za-zÁÉÍÓÚáéíóúÑñ\s]
NameChars ==
    Letters \cup {"Á", "É", "Í", "Ó", "Ú", "á", "é", "í", "ó", "ú", "Ñ", "ñ"}
        \cup Whitespace

\* a character class repeated min to max times, greedy (max < 0: no maximum)
Cls(set, min, max) ==
    [t |-> "cls", set |-> set, min |-> min, max |-> max, lazy |-> FALSE]

\* the same, lazy (.*?)
ClsLazy(set, min, max) ==
    [t |-> "cls", set |-> set, min |-> min, max |-> max, lazy |-> TRUE]

\* a literal word, lower case, matched under the i flag
Lit(word) == [t |-> "lit", word |-> word]

\* a literal character matched as it is
Chr(c) == Cls({c}, 1, 1)

\* (?:a|b|c): the alternatives in order, each a sequence of nodes
Alt(alts) == [t |-> "alt", alts |-> alts]

\* the parentheses of capture group g
Open(g) == [t |-> "open", g |-> g]

Close(g) == [t |-> "close", g |-> g]

\* no match (exec returns null)
Fail == [ok |-> FALSE]

\* the number of characters of the set in a row at pos, max at most
Run(text, pos, set, max) ==
    LET most == IF max < 0 \/ max > Len(text) - pos + 1
                THEN Len(text) - pos + 1 ELSE max
    IN  CHOOSE k \in 0..most :
            /\ \A j \in 0..(k - 1) : text[pos + j] \in set
            /\ k = most \/ text[pos + k] \notin set

\* the match of the nodes at pos that backtracking finds first
RECURSIVE MatchAt(_, _, _, _)
MatchAt(nodes, text, pos, caps) ==
    IF nodes = <<>> THEN [ok |-> TRUE, end |-> pos, caps |-> caps]
    ELSE
      LET n == Head(nodes)
          rest == Tail(nodes)
      IN  CASE n.t = "open" ->
                 MatchAt(rest, text, pos, [caps EXCEPT ![n.g] = <<pos, pos>>])
            [] n.t = "close" ->
                 MatchAt(rest, text, pos, [caps EXCEPT ![n.g] = <<@[1], pos>>])
            [] n.t = "lit" ->
                 IF /\ pos + Len(n.word) - 1 <= Len(text)
                    /\ toLowerCase(SubSeq(text, pos, pos + Len(n.word) - 1)) = n.word
                 THEN MatchAt(rest, text, pos + Len(n.word), caps)
                 ELSE Fail
            [] n.t = "alt" ->
                 LET tried == {[alt |-> i,
                                m |-> MatchAt(n.alts[i] \o rest, text, pos, caps)] :
                                  i \in DOMAIN n.alts}
                     good == {x \in tried : x.m.ok}
                 IN  IF good = {} THEN Fail
                     ELSE (CHOOSE x \in good : \A y \in good : x.alt <= y.alt).m
            [] n.t = "cls" ->
                 LET run == Run(text, pos, n.set, n.max)
                     tried == {[k |-> k, m |-> MatchAt(rest, text, pos + k, caps)] :
                                  k \in n.min..run}
                     good == {x \in tried : x.m.ok}
                 IN  IF good = {} THEN Fail
                     ELSE IF n.lazy
                          THEN (CHOOSE x \in good : \A y \in good : x.k <= y.k).m
                          ELSE (CHOOSE x \in good : \A y \in good : x.k >= y.k).m

\* pattern.exec(text) with pattern.lastIndex = from: the leftmost match, as
\* [index, end (the new lastIndex), groups (match[1], match[2], ...)]
Exec(nodes, groups, text, from) ==
    LET none == [g \in 1..groups |-> <<0, 0>>]
        tried == {[at |-> s, m |-> MatchAt(nodes, text, s, none)] :
                     s \in from..Len(text)}
        good == {x \in tried : x.m.ok}
    IN  IF good = {} THEN Fail
        ELSE LET first == CHOOSE x \in good : \A y \in good : x.at <= y.at
             IN  [ok |-> TRUE, index |-> first.at, end |-> first.m.end,
                  groups |-> [g \in 1..groups |->
                                SubSeq(text, first.m.caps[g][1],
                                       first.m.caps[g][2] - 1)]]

\* while ((match = pattern.exec(text)) !== null) with the g flag: the matches
\* in turn, each search starting where the last match ended
RECURSIVE ExecAll(_, _, _, _)
ExecAll(nodes, groups, text, from) ==
    LET match == Exec(nodes, groups, text, from)
    IN  IF ~match.ok THEN <<>>
        ELSE <<match>> \o ExecAll(nodes, groups, text, match.end)

(***************************************************************************)
(* WhatsAppParser: the patterns of the constructor                         *)
(***************************************************************************)
\* \s+
Spaces == Cls(Whitespace, 1, 0 - 1)

\* (?:el\s+)?
TheArticle == Alt(<< <<Lit(<<"e", "l">>), Spaces>>, <<>> >>)

\* (?:carro|vehículo|auto|taxi)
TheVehicle ==
    Alt(<< <<Lit(<<"c", "a", "r", "r", "o">>)>>, <<Lit(<<"v", "e", "h", "í",
            "c", "u", "l", "o">>)>>, <<Lit(<<"a", "u", "t", "o">>)>>,
           <<Lit(<<"t", "a", "x", "i">>)>> >>)

\* (?:paso|entrego|doy)
TheHandingOver ==
    Alt(<< <<Lit(<<"p", "a", "s", "o">>)>>, <<Lit(<<"e", "n", "t", "r", "e",
            "g", "o">>)>>, <<Lit(<<"d", "o", "y">>)>> >>)

\* ([A-Z0-9\-\s]+) as capture group g
PlateGroup(g) == <<Open(g), Cls(PlateChars, 1, 0 - 1), Close(g)>>

\* ([A-Za-zÁÉÍÓÚáéíóúÑñ\s]+) as capture group g
NameGroup(g) == <<Open(g), Cls(NameChars, 1, 0 - 1), Close(g)>>

\* this.transferPatterns, indexed from 0 as in the code; each with the number
\* of its capture groups
transferPatterns ==
    [patternIndex \in 0..5 |->
       CASE patternIndex = 0 ->  \* "le paso el carro X a Y"
              [groups |-> 2,
               nodes |-> <<Alt(<< <<Lit(<<"l", "e">>), Spaces, Lit(<<"p",
                       "a", "s", "o">>)>>,
                                  <<Lit(<<"p", "a", "s", "o">>)>>,
                                          <<Lit(<<"e", "n", "t", "r", "e",
                                          "g", "o">>)>>,
                                  <<Lit(<<"d", "o", "y">>)>> >>),
                           Spaces, TheArticle, TheVehicle, Spaces>>
                          \o PlateGroup(1)
                          \o <<Spaces, Lit(<<"a">>), Spaces>> \o NameGroup(2)]
         [] patternIndex = 1 ->  \* "el carro X se lo paso a Y"
              [groups |-> 2,
               nodes |-> <<TheArticle, TheVehicle, Spaces>> \o PlateGroup(1)
                          \o <<Spaces, Lit(<<"s", "e">>), Spaces, Lit(<<"l",
                                  "o">>), Spaces,
                               TheHandingOver, Spaces, Lit(<<"a">>), Spaces>>
                          \o NameGroup(2)]
         [] patternIndex = 2 ->  \* "Y recibe el carro X"
              [groups |-> 2,
               nodes |-> NameGroup(1)
                          \o <<Spaces,
                               Alt(<< <<Lit(<<"r", "e", "c", "i", "b",
                                       "e">>)>>, <<Lit(<<"t", "o", "m",
                                       "a">>)>>,
                                      <<Lit(<<"a", "g", "a", "r", "r",
                                              "a">>)>> >>),
                               Spaces, TheArticle, TheVehicle, Spaces>>
                          \o PlateGroup(2)]
         [] patternIndex = 3 ->  \* "transferir carro X a Y"
              [groups |-> 2,
               nodes |-> <<Alt(<< <<Lit(<<"t", "r", "a", "n", "s", "f", "e",
                       "r", "i", "r">>)>>,
                                  <<Lit(<<"t", "r", "a", "n", "s", "f", "e",
                                          "r", "e", "n", "c", "i",
                                          "a">>)>> >>),
                           Spaces, TheArticle, TheVehicle, Spaces>>
                          \o PlateGroup(1)
                          \o <<Spaces, Lit(<<"a">>), Spaces>> \o NameGroup(2)]
         [] patternIndex = 4 ->  \* "X deja el carro, Y lo toma"
              [groups |-> 3,
               nodes |-> NameGroup(1)
                          \o <<Spaces,
                               Alt(<< <<Lit(<<"d", "e", "j", "a">>)>>,
                                       <<Lit(<<"e", "n", "t", "r", "e", "g",
                                       "a">>)>> >>),
                               Spaces, TheArticle, TheVehicle, Spaces>>
                          \o PlateGroup(2)
                          \o <<ClsLazy(AnyChar, 0, 0 - 1)>>
                          \o NameGroup(3)
                          \o <<Spaces,
                               Alt(<< <<Lit(<<"l", "o">>), Spaces, Lit(<<"t",
                                       "o", "m", "a">>)>>,
                                      <<Lit(<<"l", "o">>), Spaces, Lit(<<"r",
                                              "e", "c", "i", "b", "e">>)>>,
                                      <<Lit(<<"l", "o">>), Spaces, Lit(<<"a",
                                              "g", "a", "r", "r",
                                              "a">>)>> >>)>>]
         [] patternIndex = 5 ->  \* "carro X para Y"
              [groups |-> 2,
               nodes |-> <<TheVehicle, Spaces>> \o PlateGroup(1)
                          \o <<Spaces, Lit(<<"p", "a", "r", "a">>),
                                  Spaces>> \o NameGroup(2)]]

\* \d{1,2}\/\d{1,2}\/\d{n}
DayMonthYear(n) ==
    <<Cls(Digits, 1, 2), Chr("/"), Cls(Digits, 1, 2), Chr("/"), Cls(Digits,
            n, n)>>

\* \d{1,2}:\d{2}
HourMinute == <<Cls(Digits, 1, 2), Chr(":"), Cls(Digits, 2, 2)>>

\* this.dateTimePatterns, in order
dateTimePatterns ==
    << \* DD/MM/YYYY, HH:MM
       <<Open(1)>> \o DayMonthYear(4)
         \o <<Close(1), Cls({","}, 0, 1), Cls(Whitespace, 0, 0 - 1), Open(2)>>
         \o HourMinute \o <<Close(2)>>,
       \* DD/MM/YY, HH:MM
       <<Open(1)>> \o DayMonthYear(2)
         \o <<Close(1), Cls({","}, 0, 1), Cls(Whitespace, 0, 0 - 1), Open(2)>>
         \o HourMinute \o <<Close(2)>>,
       \* [DD/MM/YY HH:MM:SS]
       <<Chr("["), Open(1)>> \o DayMonthYear(2) \o <<Close(1), Spaces,
               Open(2)>>
         \o HourMinute \o <<Chr(":"), Cls(Digits, 2, 2), Close(2),
                 Chr("]")>> >>

(***************************************************************************)
(* The lines of text the parser is given, and the matches of the patterns  *)
(* in them                                                                 *)
(***************************************************************************)
LinePass == <<"l", "e", " ", "p", "a", "s", "o", " ", "e", "l", " ", "c",
        "a", "r", "r", "o", " ", "A", "B", "C", "-", "1", "2", "3", " ", "a",
        " ", "J", "u", "a", "n">>

LinePassDated == <<"1", "5", "/", "0", "1", "/", "2", "0", "2", "4", ",",
        " ", "1", "0", ":", "3", "0", " ", "-", " ", "l", "e", " ", "p", "a",
        "s", "o", " ", "e", "l", " ", "c", "a", "r", "r", "o", " ", "A", "B",
        "C", "-", "1", "2", "3", " ", "a", " ", "J", "u", "a", "n">>

\* 1970-01-01T00:00 local time
LinePassNewYear == <<"0", "1", "/", "0", "1", "/", "1", "9", "7", "0", ",",
        " ", "0", "0", ":", "0", "0", " ", "-", " ", "l", "e", " ", "p", "a",
        "s", "o", " ", "e", "l", " ", "c", "a", "r", "r", "o", " ", "A", "B",
        "C", "-", "1", "2", "3", " ", "a", " ", "J", "u", "a", "n">>

\* 1969-12-31T19:00 local time
LinePassNewYearsEve == <<"3", "1", "/", "1", "2", "/", "1", "9", "6", "9",
        ",", " ", "1", "9", ":", "0", "0", " ", "-", " ", "l", "e", " ", "p",
        "a", "s", "o", " ", "e", "l", " ", "c", "a", "r", "r", "o", " ", "A",
        "B", "C", "-", "1", "2", "3", " ", "a", " ", "J", "u", "a", "n">>

LinePassedOn == <<"e", "l", " ", "c", "a", "r", "r", "o", " ", "A", "B", "C",
        "-", "1", "2", "3", " ", "s", "e", " ", "l", "o", " ", "p", "a", "s",
        "o", " ", "a", " ", "J", "u", "a", "n">>

LineReceives == <<"[", "1", "5", "/", "0", "1", "/", "2", "4", " ", "1", "0",
        ":", "3", "0", ":", "0", "0", "]", " ", "P", "e", "d", "r", "o", " ",
        "r", "e", "c", "i", "b", "e", " ", "e", "l", " ", "c", "a", "r", "r",
        "o", " ", "D", "E", "F", "-", "7", "8", "9">>

LineTransfer == <<"3", "2", "/", "0", "1", "/", "2", "0", "2", "4", ",", " ",
        "1", "0", ":", "0", "0", " ", "1", "5", "/", "0", "1", "/", "2", "4",
        ",", " ", "1", "0", ":", "3", "0", " ", "t", "r", "a", "n", "s", "f",
        "e", "r", "i", "r", " ", "c", "a", "r", "r", "o", " ", "X", "Y", "-",
        "1", " ", "a", " ", "A", "n", "a">>

LineHandover == <<"J", "u", "a", "n", " ", "d", "e", "j", "a", " ", "e", "l",
        " ", "c", "a", "r", "r", "o", " ", "A", "B", "C", "-", "1", "2", "3",
        ",", " ", "A", "n", "a", " ", "l", "o", " ", "t", "o", "m", "a">>

LineFor == <<"3", "2", "/", "0", "1", "/", "2", "0", "2", "4", ",", " ", "1",
        "0", ":", "0", "0", " ", "c", "a", "r", "r", "o", " ", "Z", "9", " ",
        "p", "a", "r", "a", " ", "A", "n", "a">>

\* no vehicle between "carro" and "a"
LineNoVehicle == <<"p", "a", "s", "o", " ", "e", "l", " ", "c", "a", "r",
        "r", "o", " ", " ", " ", "a", " ", "J", "u", "a", "n">>

\* nobody before "toma"
LineNoDriver == <<"o", "k", ":", " ", " ", " ", "t", "o", "m", "a", " ", "e",
        "l", " ", "c", "a", "r", "r", "o", " ", "X", "1">>

LineHello == <<"h", "o", "l", "a">>

LineBlank == <<" ", " ">>

ChatLines ==
    {LinePass, LinePassDated, LinePassNewYear, LinePassNewYearsEve,
     LinePassedOn, LineReceives, LineTransfer, LineHandover, LineFor,
     LineNoVehicle, LineNoDriver, LineHello, LineBlank}

\* the lines that come in a chat of two lines
PairedLines ==
    {LinePass, LinePassDated, LinePassNewYear, LinePassNewYearsEve,
     LineReceives, LineBlank}

\* the contents of the chat files, split at the line ends
Chats == {<<a>> : a \in ChatLines} \cup {<<a, b>> : a, b \in PairedLines}

\* the lines of the tables: date, time, sender, message
RowHeader == <<"f", "e", "c", "h", "a", ",", "h", "o", "r", "a", ",", "r",
        "e", "m", "i", "t", "e", "n", "t", "e", ",", "m", "e", "n", "s", "a",
        "j", "e">>

RowPass == <<"1", "5", "/", "0", "1", "/", "2", "0", "2", "4", ",", "1", "0",
        ":", "3", "0", ",", "A", "n", "a", ",", "l", "e", " ", "p", "a", "s",
        "o", " ", "e", "l", " ", "c", "a", "r", "r", "o", " ", "A", "B", "C",
        "-", "1", "2", "3", " ", "a", " ", "J", "u", "a", "n">>

RowQuoted == <<"\"", "1", "5", "/", "0", "1", "/", "2", "0", "2", "4", "\"",
        ",", "\"", "1", "0", ":", "3", "0", "\"", ",", "\"", "A", "n", "a", "\"",
        ",", " ", "\"", "p", "a", "s", "o", " ", "e", "l", " ", "c", "a", "r",
        "r", "o", " ", " ", " ", "a", " ", "J", "u", "a", "n", "\"", " ">>

RowShort == <<"1", "5", "/", "0", "1", "/", "2", "0", "2", "4", ",", "1",
        "0", ":", "3", "0", ",", "h", "o", "l", "a">>

Tables ==
    {<<RowHeader>>, <<RowHeader, RowPass>>, <<RowHeader, RowQuoted, RowShort>>,
     <<RowHeader, RowPass, RowPass>>}

\* the texts the patterns are matched against: the trimmed lines of the chats
\* and the messages of the tables
Texts == {trim(line) : line \in ChatLines}

\* the matches of each transfer pattern in each text (pattern.exec in the
\* while loop of findTransferPatterns)
TransferMatches ==
    [text \in Texts |->
       [patternIndex \in 0..5 |->
          ExecAll(transferPatterns[patternIndex].nodes,
                  transferPatterns[patternIndex].groups, text, 1)]]

\* the first match of each date pattern in each text (pattern.exec in
\* extractDateTime)
DateTimeMatches ==
    [text \in Texts |->
       [p \in DOMAIN dateTimePatterns |-> Exec(dateTimePatterns[p], 2, text,
               1)]]

(***************************************************************************)
(* WhatsAppParser: cleaning of the captured tokens                         *)
(***************************************************************************)
\* String.prototype.toUpperCase
toUpperCase(s) ==
    [i \in DOMAIN s |->
        IF s[i] \in Range(LowerCaseLetters)
        THEN UpperCaseLetters[IndexOf(LowerCaseLetters, s[i])]
        ELSE s[i]]

\* s.replace(/\s+/g, ' '): every run of white space becomes one space
RECURSIVE collapseSpaces(_)
collapseSpaces(s) ==
    IF s = <<>> THEN <<>>
    ELSE IF Head(s) \in Whitespace
         THEN <<" ">> \o collapseSpaces(trimStart(s))
         ELSE <<Head(s)>> \o collapseSpaces(Tail(s))

\* cleanVehicleId(vehicleId)
cleanVehicleId(vehicleId) ==
    IF Falsy(vehicleId) THEN <<>>
    ELSE trim(SelectSeq(collapseSpaces(toUpperCase(trim(vehicleId))),
                        LAMBDA c : c \in WordChars \cup Whitespace \cup {"-"}))

\* cleaned.replace(/^\s*-\s*/, ' ')
replaceLeadingHyphen(s) ==
    LET rest == trimStart(s)
    IN  IF rest # <<>> /\ Head(rest) = "-"
        THEN <<" ">> \o trimStart(Tail(rest))
        ELSE s

\* cleaned.replace(/\s*:.*$/, ' '): the text is cut at the white space before
\* its first colon
replaceFromColon(s) ==
    IF ":" \notin Range(s) THEN s
    ELSE LET colon == CHOOSE i \in DOMAIN s :
                         s[i] = ":" /\ \A j \in 1..(i - 1) : s[j] # ":"
         IN  trimEnd(SubSeq(s, 1, colon - 1)) \o <<" ">>

\* s.replace(/\b\w/g, l => l.toUpperCase())
capitalizeWords(s) ==
    [i \in DOMAIN s |->
        IF s[i] \in WordChars /\ (i = 1 \/ s[i - 1] \notin WordChars)
        THEN toUpperCase(<<s[i]>>)[1]
        ELSE s[i]]

\* cleanDriverName(driverName)
cleanDriverName(driverName) ==
    IF Falsy(driverName) THEN <<>>
    ELSE LET cleaned ==
               collapseSpaces(replaceFromColon(replaceLeadingHyphen(trim(driverName))))
         IN  capitalizeWords(toLowerCase(collapseSpaces(trim(cleaned))))

\* calculateConfidence(matchText, patternIndex), in hundredths
calculateConfidence(matchText, patternIndex) ==
    LET patternConfidence == <<90, 85, 80, 90, 75, 70>>
        keyWords == {<<"t", "r", "a", "n", "s", "f", "e", "r", "i", "r">>,
                <<"e", "n", "t", "r", "e", "g", "o">>, <<"p", "a", "s",
                "o">>, <<"r", "e", "c", "i", "b", "e">>}
        keyWordCount ==
            Cardinality({word \in keyWords : includes(toLowerCase(matchText),
                    word)})
        confidence == patternConfidence[patternIndex + 1] + keyWordCount * 5
    IN  IF confidence < 100 THEN confidence ELSE 100

(***************************************************************************)
(* WhatsAppParser: candidates of a line                                    *)
(***************************************************************************)
\* the roles of a parser that reads every pattern as "vehicle, then driver"
rolesVehicleFirst(match, patternIndex) ==
    [vehicleId |-> cleanVehicleId(match.groups[1]),
     fromDriver |-> <<>>,
     toDriver |-> cleanDriverName(match.groups[2])]

\* the switch of findTransferPatterns: the roles of the capture groups of a
\* match of pattern patternIndex, cleaned (undefined is the empty string)
rolesOfMatch(match, patternIndex) ==
    CASE patternIndex \in {0, 1, 3, 5} ->
           [vehicleId |-> cleanVehicleId(match.groups[1]),
            fromDriver |-> <<>>,
            toDriver |-> cleanDriverName(match.groups[2])]
      [] patternIndex = 2 ->
           [vehicleId |-> cleanVehicleId(match.groups[2]),
            fromDriver |-> <<>>,
            toDriver |-> cleanDriverName(match.groups[1])]
      [] patternIndex = 4 ->
           [vehicleId |-> cleanVehicleId(match.groups[2]),
            fromDriver |-> cleanDriverName(match.groups[1]),
            toDriver |-> cleanDriverName(match.groups[3])]

\* a while loop that pushes a candidate for every match
candidatesOfMatchAlways(text, match, patternIndex) ==
    LET roles == rolesOfMatch(match, patternIndex)
    IN  <<[vehicleId |-> roles.vehicleId,
           fromDriver |-> IF Falsy(roles.fromDriver) THEN Null
                          ELSE roles.fromDriver,
           toDriver |-> roles.toDriver,
           patternUsed |-> patternIndex,
           confidence |->
               calculateConfidence(SubSeq(text, match.index, match.end - 1),
                                   patternIndex)]>>

\* the body of the while loop: the candidate pushed for a match, if any
candidatesOfMatch(text, match, patternIndex) ==
    LET roles == rolesOfMatch(match, patternIndex)
    IN  IF ~Falsy(roles.vehicleId) /\ ~Falsy(roles.toDriver)
        THEN <<[vehicleId |-> roles.vehicleId,
                fromDriver |-> IF Falsy(roles.fromDriver) THEN Null
                               ELSE roles.fromDriver,
                toDriver |-> roles.toDriver,
                patternUsed |-> patternIndex,
                confidence |->
                    calculateConfidence(SubSeq(text, match.index,
                            match.end - 1),
                                        patternIndex)]>>
        ELSE <<>>

\* the concatenation of a sequence of sequences
RECURSIVE Flatten(_)
Flatten(lists) ==
    IF lists = <<>> THEN <<>> ELSE Head(lists) \o Flatten(Tail(lists))

\* the matches of pattern patternIndex in the text
matchesOf(text, patternIndex) == TransferMatches[text][patternIndex]

\* the while loop of findTransferPatterns for the matches of one pattern
candidatesOfMatches(text, matches, patternIndex) ==
    Flatten([m \in DOMAIN matches |->
               candidatesOfMatch(text, matches[m], patternIndex)])

\* findTransferPatterns(text)
findTransferPatterns(text) ==
    Flatten([p \in 1..6 |-> candidatesOfMatches(text, matchesOf(text, p - 1), p - 1)])

(***************************************************************************)
(* WhatsAppParser: the date and time of a line.  A Date of the parser is   *)
(* [minutes |-> m]: getTime() is 60000 * m, m the minutes since            *)
(* 1970-01-01T00:00Z; null is NullDate.                                    *)
(***************************************************************************)
NullDate == [none |-> TRUE]

\* a Date whose getTime() is NaN
NaNDate == [nan |-> TRUE]

\* s.split(sep) for a one-character separator
RECURSIVE split(_, _)
split(s, sep) ==
    IF sep \notin Range(s) THEN <<s>>
    ELSE LET at == CHOOSE i \in DOMAIN s :
                      s[i] = sep /\ \A j \in 1..(i - 1) : s[j] # sep
         IN  <<SubSeq(s, 1, at - 1)>> \o split(SubSeq(s, at + 1, Len(s)), sep)

\* s.padStart(2, '0')
padStart2(s) == IF Len(s) < 2 THEN <<"0">> \o s ELSE s

\* the number a string of decimal digits denotes
RECURSIVE ToNumber(_)
ToNumber(digits) ==
    IF digits = <<>> THEN 0
    ELSE 10 * ToNumber(SubSeq(digits, 1, Len(digits) - 1))
           + (IndexOf(DecimalDigits, digits[Len(digits)]) - 1)

IsLeapYear(year) == year % 4 = 0 /\ (year % 100 # 0 \/ year % 400 = 0)

DaysInMonth(year, month) ==
    IF month = 2 THEN (IF IsLeapYear(year) THEN 29 ELSE 28)
    ELSE IF month \in {4, 6, 9, 11} THEN 30 ELSE 31

\* the days from 1970-01-01 to the day of the proleptic Gregorian calendar
DaysFromEpoch(year, month, day) ==
    LET y == IF month <= 2 THEN year - 1 ELSE year
        era == y \div 400
        yoe == y - era * 400
        doy == (153 * (IF month > 2 THEN month - 3 ELSE month + 9) + 2) \div 5
                 + day - 1
        doe == yoe * 365 + yoe \div 4 - yoe \div 100 + doy
    IN  era * 146097 + doe - 719468

\* new Date(s) for s of the form YYYY-MM-DDTHH:MM:SS, read as local time
\* (local time = UTC + offset);
\* the lines of the model give two-digit hours, so that the string always
\* has this form
NewDate(s, offset) ==
    LET shaped == /\ Len(s) = 19
                  /\ \A i \in {5, 8} : s[i] = "-"
                  /\ s[11] = "T"
                  /\ \A i \in {14, 17} : s[i] = ":"
                  /\ \A i \in (1..19) \ {5, 8, 11, 14, 17} : s[i] \in Digits
        year == ToNumber(SubSeq(s, 1, 4))
        month == ToNumber(SubSeq(s, 6, 7))
        day == ToNumber(SubSeq(s, 9, 10))
        hour == ToNumber(SubSeq(s, 12, 13))
        minute == ToNumber(SubSeq(s, 15, 16))
        second == ToNumber(SubSeq(s, 18, 19))
    IN  IF /\ shaped
           /\ month \in 1..12
           /\ day \in 1..DaysInMonth(year, month)
           /\ hour \in 0..23 /\ minute \in 0..59 /\ second \in 0..59
        THEN [minutes |->
                (DaysFromEpoch(year, month, day) * HoursPerDay + hour - offset)
                    * 60 + minute]
        ELSE NaNDate

\* the try block of extractDateTime for a match of one of the patterns
dateTimeOfMatch(match, offset) ==
    LET dateParts == split(match.groups[1], "/")
        year == IF Len(dateParts[3]) = 2 THEN <<"2", "0">> \o dateParts[3]
                ELSE dateParts[3]
        dateStr == year \o <<"-">> \o padStart2(dateParts[2]) \o <<"-">>
                     \o padStart2(dateParts[1])
        timeStr == IF Len(split(match.groups[2], ":")) = 3
                   THEN substring0(match.groups[2], 5)
                   ELSE match.groups[2]
        dateTime == NewDate(dateStr \o <<"T">> \o timeStr \o <<":", "0", "0">>,
                            offset)
    IN  IF dateTime = NaNDate THEN NullDate ELSE dateTime

\* extractDateTime(text) on a host of the given offset: the loop over the
\* patterns from the one at index p; the first pattern that matches decides
RECURSIVE extractDateTimeFrom(_, _, _)
extractDateTimeFrom(text, p, offset) ==
    IF p > Len(dateTimePatterns) THEN NullDate
    ELSE LET match == DateTimeMatches[text][p]
         IN  IF match.ok THEN dateTimeOfMatch(match, offset)
             ELSE extractDateTimeFrom(text, p + 1, offset)

(***************************************************************************)
(* WhatsAppParser: duplicates, chats and tables                            *)
(***************************************************************************)
\* `${transfer.dateTime?.getTime() || 'no-date'}`
timeKey(dateTime) ==
    IF dateTime = NullDate \/ dateTime.minutes = 0 THEN <<"n", "o", "-",
            "d", "a", "t", "e">>
    ELSE IF dateTime.minutes < 0
         THEN <<"-">> \o ToDecimal(6 * (0 - dateTime.minutes)) \o <<"0", "0",
                 "0", "0">>
         ELSE ToDecimal(6 * dateTime.minutes) \o <<"0", "0", "0", "0">>

\* the key of deduplicateTransfers
dedupeKey(transfer) ==
    transfer.vehicleId \o <<"-">> \o transfer.toDriver \o <<"-">>
        \o timeKey(transfer.dateTime)

\* transfers.filter(...) with the set of the keys seen
RECURSIVE filterSeen(_, _)
filterSeen(transfers, seen) ==
    IF transfers = <<>> THEN <<>>
    ELSE LET key == dedupeKey(Head(transfers))
         IN  IF key \in seen THEN filterSeen(Tail(transfers), seen)
             ELSE <<Head(transfers)>>
                    \o filterSeen(Tail(transfers), seen \cup {key})

\* deduplicateTransfers(transfers)
deduplicateTransfers(transfers) == filterSeen(transfers, {})

extractDateTime(text) == extractDateTimeFrom(text, 1, utcOffset)

\* transfers.push({...transfer, dateTime, originalText: line, lineNumber})
\* for the candidates found in a line of a chat
chatLineTransfers(found, dateTime, line, lineNumber) ==
    [k \in DOMAIN found |->
       [vehicleId |-> found[k].vehicleId,
        fromDriver |-> found[k].fromDriver,
        toDriver |-> found[k].toDriver,
        patternUsed |-> found[k].patternUsed,
        confidence |-> found[k].confidence,
        dateTime |-> dateTime,
        originalText |-> line,
        lineNumber |-> lineNumber]]

\* the body of the loop of parseChat for the trimmed line
chatLine(line, lineNumber) ==
    IF line = <<>> THEN <<>>
    ELSE chatLineTransfers(findTransferPatterns(line), extractDateTime(line),
                           line, lineNumber)

\* the loop of parseChat: the candidates of the lines, each with the date and
\* time, the text and the number of its line
chatTransfers(lines) ==
    Flatten([i \in DOMAIN lines |-> chatLine(trim(lines[i]), i)])

\* parseChat(content, 'txt'), the content given by its lines
parseChat(lines) ==
    IF lines = <<>> THEN <<>> ELSE deduplicateTransfers(chatTransfers(lines))

\* line.split(',').map(col => col.replace(/"/g, '').trim())
columnsOf(line) ==
    LET cols == split(line, ",")
    IN  [c \in DOMAIN cols |-> trim(Without(cols[c], {"\""}))]

\* transfers.push({...transfer, dateTime, sender, originalText, lineNumber})
\* for the candidates found in the message of a line of a table
tableLineTransfers(found, dateTime, columns, lineNumber) ==
    [k \in DOMAIN found |->
       [vehicleId |-> found[k].vehicleId,
        fromDriver |-> found[k].fromDriver,
        toDriver |-> found[k].toDriver,
        patternUsed |-> found[k].patternUsed,
        confidence |-> found[k].confidence,
        dateTime |-> IF dateTime = NaNDate THEN NullDate ELSE dateTime,
        sender |-> columns[3],
        originalText |->
            columns[1] \o <<" ">> \o columns[2] \o <<" ">> \o columns[3]
                \o <<":", " ">> \o columns[4],
        lineNumber |-> lineNumber]]

\* the body of the loop of parseCSV for the columns of a line
tableLine(line, columns, dateTime, lineNumber) ==
    IF lineNumber = 1 \/ line = <<>> \/ Len(columns) < 4 THEN <<>>
    ELSE tableLineTransfers(findTransferPatterns(columns[4]), dateTime,
                            columns, lineNumber)

\* the loop of parseCSV, the first line skipped.  parseCSVDateTime hands
\* `${date} ${time}` to new Date, which reads a text that is not in the ISO
\* form as the engine sees fit: dates[i] is what it makes of line i.
tableTransfers(lines, dates) ==
    Flatten([i \in DOMAIN lines |->
               tableLine(trim(lines[i]), columnsOf(trim(lines[i])), dates[i], i)])

\* parseCSV(csvContent)
parseCSV(lines, dates) == deduplicateTransfers(tableTransfers(lines, dates))

\* what new Date makes of the date and time of a line of a table
TableDates == {NaNDate, [minutes |-> 28421910]}

(***************************************************************************)
(* WhatsAppParser: the calls                                               *)
(***************************************************************************)
ExtractDateTime(text) ==
    /\ ret' = [op |-> "extractDateTime", text |-> text,
               result |-> extractDateTime(text)]
    /\ UNCHANGED <<daily_processing, recordsWritten, lastRecorded>>
    /\ UNCHANGED <<clockVars, runVars, alertVars, uploadVars, pageVars>>

FindTransferPatterns(text) ==
    /\ ret' = [op |-> "findTransferPatterns", text |-> text,
               result |-> findTransferPatterns(text)]
    /\ UNCHANGED <<daily_processing, recordsWritten, lastRecorded>>
    /\ UNCHANGED <<clockVars, runVars, alertVars, uploadVars, pageVars>>

ParseChat(lines) ==
    /\ ret' = [op |-> "parseChat", lines |-> lines,
               result |-> parseChat(lines)]
    /\ UNCHANGED <<daily_processing, recordsWritten, lastRecorded>>
    /\ UNCHANGED <<clockVars, runVars, alertVars, uploadVars, pageVars>>

ParseCSV(lines) ==
    /\ \E dates \in [DOMAIN lines -> TableDates] :
         ret' = [op |-> "parseCSV", lines |-> lines, dates |-> dates,
                 result |-> parseCSV(lines, dates)]
    /\ UNCHANGED <<daily_processing, recordsWritten, lastRecorded>>
    /\ UNCHANGED <<clockVars, runVars, alertVars, uploadVars, pageVars>>

(***************************************************************************)
(* DataHashService called on its own                                       *)
(***************************************************************************)
\* the batches handed to generateDataHash
HashBatches == {b \in Batches : _validateProcessingData(b)}

\* hashService.generateDataHash(data); ret also keeps the call before it
GenerateDataHash(data) ==
    /\ \E random \in RandomStrings :
         ret' = [op |-> "generateDataHash", data |-> data,
                 hash |-> DataHash[data, now, random],
                 prevData |-> IF ret.op = "generateDataHash" THEN ret.data
                              ELSE NoBatch,
                 prevHash |-> IF ret.op = "generateDataHash" THEN ret.hash
                              ELSE NoHash]
    /\ UNCHANGED <<daily_processing, recordsWritten, lastRecorded>>
    /\ UNCHANGED <<clockVars, runVars, alertVars, uploadVars, pageVars>>

(***************************************************************************)
(* Specifications                                                          *)
(***************************************************************************)
CheckAndSendDailyAlerts(r) ==
    \/ StartCheck(r)
    \/ CheckDailyProcessingAnswers(r)
    \/ CheckAlertSentAnswers(r)
    \/ SendAlert(r)
    \/ RecordAlertSent(r)

\* the alert scheduler: timer ticks and manual checks, possibly overlapping
NextAlert ==
    \/ ClockAdvance
    \/ \E r \in Runs : CheckAndSendDailyAlerts(r)

\* EmailJS configured by the deployer; a send still fails when EmailJS rejects
InitAlert == Init /\ isConfigured /\ ~isDevelopment

SpecAlert == InitAlert /\ [][NextAlert]_vars

\* one alert run at a time, with an operator who records the days' batches
NextOperator ==
    \/ ClockAdvance
    \/ CheckAndSendDailyAlerts("r1")
    \/ \E d \in {now, now - HoursPerDay} : RecordDailyProcessing(d, BatchOne)

SpecOperator == InitAlert /\ [][NextOperator]_vars

\* the ledger operations on their own
NextLedger ==
    \/ ClockAdvance
    \/ \E d \in {now, InvalidDate}, data \in LedgerBatches :
          RecordDailyProcessing(d, data)
    \/ \E d \in {now, InvalidDate}, data \in LedgerBatches :
          DetectChanges(d, data)
    \/ \E d \in DateInputs : CheckDailyProcessing(d)

InitLedger == Init /\ ~isConfigured /\ ~isDevelopment

SpecLedger == InitLedger /\ [][NextLedger]_vars

\* the fingerprint engine on its own
NextHash ==
    \/ ClockAdvance
    \/ \E data \in HashBatches : GenerateDataHash(data)

SpecHash == InitLedger /\ [][NextHash]_vars

\* the upload page: registry, upload, manual matches
NextUpload ==
    \/ LoadData
    \/ \E transfers \in Uploads : HandleFileUpload(transfers)
    \/ \E transferIndex \in 1..2, type \in {"vehicle", "fromDriver", "toDriver"},
          selectedId \in SelectableIds :
          HandleManualMatch(transferIndex, type, selectedId)

SpecUpload == InitLedger /\ [][NextUpload]_vars

\* the parser on its own
NextParser ==
    \/ \E text \in Texts : ExtractDateTime(text)
    \/ \E text \in Texts : FindTransferPatterns(text)
    \/ \E lines \in Chats : ParseChat(lines)
    \/ \E lines \in Tables : ParseCSV(lines)

SpecParser == InitLedger /\ [][NextParser]_vars

\* the upload page from the file to the commit, and the Vehicles page
NextCommit ==
    \/ LoadData
    \/ \E transfers \in CommitUploads : HandleFileUpload(transfers)
    \/ \E index \in 0..1 : HandleTransferToggle(index)
    \/ HandleSelectAll
    \/ HandleDeselectAll
    \/ HandleSave
    \/ UpdateDoc
    \/ SaveTransfersResolved
    \/ \E vehicleId \in {"v1", "v2"}, driverId \in {NoDriver, "d1"} :
          HandleAssignDriver(vehicleId, driverId)
    \/ \E editingVehicle \in {"v1"}, currentDriverId \in {NoDriver, "d1"} :
          HandleSaveVehicle(editingVehicle, currentDriverId)

InitCommit == InitLedger /\ utcOffset = 0

SpecCommit == InitCommit /\ [][NextCommit]_vars

\* the alert hook in the development and in the production build
NextHook ==
    \/ MountHook
    \/ UnmountHook
    \/ IntervalFires
    \/ \E closure \in Closures : TimeoutFires(closure)
    \/ CheckAlerts
    \/ \E i \in 1..MaxInFlight : CheckReturns(i)

InitHook == Init /\ ~isConfigured /\ utcOffset = 0

SpecHook == InitHook /\ [][NextHook]_vars

\* the timers run their callbacks and the awaited checks return
SpecHookFair ==
    /\ SpecHook
    /\ WF_vars(IntervalFires)
    /\ WF_vars(\E closure \in Closures : TimeoutFires(closure))
    /\ WF_vars(\E i \in 1..MaxInFlight : CheckReturns(i))

\* a page that shows whether a date was processed, while batches are recorded
NextCheck ==
    \/ \E d \in {now, now - HoursPerDay} : RecordDailyProcessing(d, BatchOne)
    \/ \E d \in {now, now - HoursPerDay} : UseDailyProcessingCheck(d)
    \/ Refetch
    \/ \E d \in {now, now - HoursPerDay} : CheckProcessingReturns(d)

SpecCheck == InitCommit /\ [][NextCheck]_vars

Next ==
    \/ NextAlert \/ NextOperator \/ NextLedger \/ NextHash \/ NextUpload
    \/ NextParser \/ NextCommit \/ NextHook \/ NextCheck

Spec == Init /\ [][Next]_vars


(***************************************************************************)
(* Properties of the alert scheduler                                       *)
(***************************************************************************)
\* the sent_alerts documents for (dateStr, daily_processing)
SentAlertRecords(dateStr) ==
    {id \in DOMAIN sent_alerts :
        /\ sent_alerts[id].date = dateStr
        /\ sent_alerts[id].type = DAILY_PROCESSING}

\* C1: for every date, emailService.sendAlert is invoked at most once, whatever
\* the number of runs of checkAndSendDailyAlerts and however they interleave
AtMostOneNotificationPerDate ==
    \A d \in Days : invoked[d] <= 1

\* two calls of sendDailyAlert(d) have returned, each made after the ledger
\* reported d unprocessed and alertable, and no run overlapped another
TwoTicksInSuccession(d) ==
    alertRuns[d] = 2 /\ ~overlapped

WriteAfterSend ==
    \A id \in DOMAIN sent_alerts : delivered[sent_alerts[id].date] >= 1

\* C4: a run calls emailService.sendAlert for a date only if the date is an
\* alertable weekday, is before today or is today at or after the cutoff hour,
\* and has no SentAlertRecord
TransitionGuard ==
    \A r \in Runs :
        pc[r] = "sendAlert" =>
            /\ getDay(date[r]) \in ALERT_DAYS
            /\ \/ _formatDateString(date[r]) < _formatDateString(now)
               \/ /\ _formatDateString(date[r]) = _formatDateString(now)
                  /\ getHours(now) >= DEFAULT_ALERT_HOUR
            /\ ~_checkAlertSent(_formatDateString(date[r]), FALSE)

\* C5: a run calls emailService.sendAlert for a date only if the ledger held no
\* record for the date when the run examined it
NoDispatchForProcessedDate ==
    \A r \in Runs : pc[r] = "sendAlert" => ~examined[r].hadRecord

(***************************************************************************)
(* Properties of the ledger operations                                     *)
(***************************************************************************)
\* C6: checkDailyProcessing(date).shouldAlert, returned by a call that did not
\* fail, is true only for a date without a record, on an alertable weekday, at
\* least one day before now and not today
ShouldAlertOnlyPastWorkday ==
    (ret.op = "checkDailyProcessing" /\ ~ret.result.error
        /\ ret.result.shouldAlert) =>
        /\ ~ret.hadRecord
        /\ getDay(ret.date) \in ALERT_DAYS
        /\ ret.at - ret.date >= HoursPerDay
        /\ _formatDateString(ret.date) # _formatDateString(ret.at)

\* detectChanges(D, batch) has returned, D a valid date
DetectChangesReturned ==
    ret.op = "detectChanges" /\ _validateDate(ret.date)

\* the batch of the latest record written for the date detectChanges was
\* called with
RecordedBatch == lastRecorded[_formatDateString(ret.date)]

\* C7: detectChanges(D, B) after recordDailyProcessing(D, B), the ledger
\* answering the query, returns hasChanges = false, isFirstProcessing = false
SameBatchNoChanges ==
    (DetectChangesReturned /\ ~ret.queryFailed /\ RecordedBatch = ret.data) =>
        ~ret.result.hasChanges /\ ~ret.result.isFirstProcessing

\* newData is oldData with one more transfer
OneMoreTransfer(oldData, newData) ==
    /\ oldData # NoBatch
    /\ newData.transfersCount = oldData.transfersCount + 1
    /\ Len(newData.transfers) = Len(oldData.transfers) + 1
    /\ SubSeq(newData.transfers, 1, Len(oldData.transfers)) = oldData.transfers
    /\ newData.filesProcessed = oldData.filesProcessed
    /\ newData.source = oldData.source

\* detectChanges reports a change with a transfers_count entry from the count
\* of the recorded batch to the count of the new one
CountDeltaReported ==
    /\ ret.result.hasChanges
    /\ \E i \in DOMAIN ret.result.changes :
         ret.result.changes[i] =
            [type |-> "transfers_count", old |-> RecordedBatch.transfersCount,
             new |-> ret.data.transfersCount]

DecidedByFingerprint ==
    LET latest == LatestProcessing(_formatDateString(ret.date))
    IN  IF ret.hash = latest.hash
        THEN /\ ~ret.result.hasChanges
             /\ ret.result.recommendation = "NO_CHANGES_DETECTED"
        ELSE /\ ret.result.hasChanges
             /\ ret.result.recommendation = "CHANGES_DETECTED"

DetectChangesFailed ==
    ret.result.error \/ ret.queryFailed

AppendOnly ==
    Cardinality(DOMAIN daily_processing) = recordsWritten


(***************************************************************************)
(* Properties of the fingerprint engine                                    *)
(***************************************************************************)
\* generateDataHash has been called twice in a row
TwoDigests ==
    ret.op = "generateDataHash" /\ ret.prevData # NoBatch

\* neither of the two calls went through the catch block
NeitherFellBack ==
    ~NormalizeThrows(ret.data) /\ ~NormalizeThrows(ret.prevData)

\* t is s in another order
IsPermutation(s, t) ==
    /\ Len(s) = Len(t)
    /\ \E p \in [DOMAIN s -> DOMAIN s] :
         /\ \A i, j \in DOMAIN s : p[i] = p[j] => i = j
         /\ \A i \in DOMAIN s : t[p[i]] = s[i]

\* the transfers and the files of the two batches are permutations of each
\* other, everything else is equal
PermutedBatches(b1, b2) ==
    /\ b1.transfersCount = b2.transfersCount
    /\ b1.source = b2.source
    /\ IsPermutation(b1.transfers, b2.transfers)
    /\ IsPermutation(b1.filesProcessed, b2.filesProcessed)

\* C11: generateDataHash returns the same digest for two batches whose
\* transfers and files are permutations of each other (neither call falling
\* back), also when transfers share vehicle and drivers and differ in time
OrderIndependentFingerprint ==
    (TwoDigests /\ NeitherFellBack /\ PermutedBatches(ret.prevData, ret.data)) =>
        ret.hash = ret.prevHash

\* the two batches differ in transfersCount and in nothing else
DifferOnlyInCount(b1, b2) ==
    /\ b1.transfersCount # b2.transfersCount
    /\ b1.transfers = b2.transfers
    /\ b1.filesProcessed = b2.filesProcessed
    /\ b1.source = b2.source

\* C12: generateDataHash returns different digests for two batches that differ
\* only in transfersCount (neither call falling back)
CountSensitiveFingerprint ==
    (TwoDigests /\ NeitherFellBack /\ DifferOnlyInCount(ret.prevData, ret.data)) =>
        ret.hash # ret.prevHash

\* C13: two calls of generateDataHash with the same input that return a digest
\* return the same digest (no time-based or random fallback digest)
NoFallbackDigest ==
    (TwoDigests /\ ret.prevData = ret.data) => ret.hash = ret.prevHash


(***************************************************************************)
(* Properties of the reconciliation                                        *)
(***************************************************************************)
\* C14: for every reconciled transfer, as built by enrichTransfers and after
\* any manual matches, isValid is true exactly when vehicleMatch and
\* toDriverMatch are resolved, whatever fromDriverMatch is
IsValidIffResolved ==
    \A i \in DOMAIN parsedTransfers :
        parsedTransfers[i].isValid <=>
            /\ parsedTransfers[i].vehicleMatch # NoMatch
            /\ parsedTransfers[i].toDriverMatch # NoMatch

\* C14: a transfer without from-driver match has become valid by a manual
\* match of its vehicle
IsValidAfterManualMatch ==
    \E i \in edited :
        /\ parsedTransfers[i].isValid
        /\ parsedTransfers[i].fromDriverMatch = NoMatch
        /\ findVehicleByIdentifier(parsedTransfers[i].vehicleId) = NoMatch

\* the token is the plate, up to case, spaces and hyphens
PlateMatches(token, plate) ==
    Without(toLowerCase(plate), {"-", " "}) = Without(toLowerCase(token), {"-", " "})

\* no vehicle of the registry has a plate the token matches
UnknownVehicle(token) ==
    \A i \in DOMAIN vehicles : ~PlateMatches(token, vehicles[i].plate)

\* the number of entries of a suggestion list
Entries(suggestion) ==
    IF suggestion = NoSuggestions THEN 0 ELSE Len(suggestion.list)

\* C15: a candidate whose vehicle token matches no plate is reconciled to no
\* vehicleMatch and isValid = false, and no suggestion list of a reconciled
\* transfer has more than 3 entries
UnknownVehicleUnresolved ==
    \A i \in DOMAIN parsedTransfers :
        LET t == parsedTransfers[i]
        IN  /\ (i \notin edited /\ UnknownVehicle(t.vehicleId)) =>
                 (t.vehicleMatch = NoMatch /\ ~t.isValid)
            /\ Entries(t.suggestions.vehicle) <= 3
            /\ Entries(t.suggestions.fromDriver) <= 3
            /\ Entries(t.suggestions.toDriver) <= 3

\* C15: with the fleet loaded, an unknown vehicle token was left unresolved
\* with three of the four similar vehicles suggested
UnknownVehicleWitness ==
    \E i \in DOMAIN parsedTransfers :
        /\ i \notin edited
        /\ Len(vehicles) = 4
        /\ UnknownVehicle(parsedTransfers[i].vehicleId)
        /\ parsedTransfers[i].vehicleMatch = NoMatch
        /\ ~parsedTransfers[i].isValid
        /\ Entries(parsedTransfers[i].suggestions.vehicle) = 3

\* the canonical name contains the candidate token, or the token the name
ContainsEitherWay(token, driver) ==
    \/ includes(toLowerCase(driver.name), trim(toLowerCase(token)))
    \/ includes(trim(toLowerCase(token)), toLowerCase(driver.name))

\* the candidate token contains the first word of the canonical name
ContainsFirstName(token, driver) ==
    includes(trim(toLowerCase(token)), FirstWord(toLowerCase(driver.name)))

\* C16: enrichTransfers resolves a driver role only to a driver
\* whose name contains the candidate token or is contained in it; else the role
\* is unresolved and gets suggestions
DriverResolvedByContainment ==
    \A i \in DOMAIN parsedTransfers \ edited :
        LET t == parsedTransfers[i]
        IN  /\ t.toDriverMatch # NoMatch =>
                 ContainsEitherWay(t.toDriver, t.toDriverMatch)
            /\ t.fromDriverMatch # NoMatch =>
                 ContainsEitherWay(t.fromDriver, t.fromDriverMatch)
            /\ t.toDriverMatch = NoMatch => t.suggestions.toDriver # NoSuggestions
            /\ t.fromDriverMatch = NoMatch => t.suggestions.fromDriver # NoSuggestions

\* what findDriverByName does resolve by: containment either way, or the
\* first name of the driver contained in the candidate token
DriverResolvedByContainmentOrFirstName ==
    \A i \in DOMAIN parsedTransfers \ edited :
        LET t == parsedTransfers[i]
        IN  /\ t.toDriverMatch # NoMatch =>
                 \/ ContainsEitherWay(t.toDriver, t.toDriverMatch)
                 \/ ContainsFirstName(t.toDriver, t.toDriverMatch)
            /\ t.fromDriverMatch # NoMatch =>
                 \/ ContainsEitherWay(t.fromDriver, t.fromDriverMatch)
                 \/ ContainsFirstName(t.fromDriver, t.fromDriverMatch)
            /\ t.toDriverMatch = NoMatch => t.suggestions.toDriver # NoSuggestions
            /\ t.fromDriverMatch = NoMatch => t.suggestions.fromDriver # NoSuggestions

\* a to-driver was resolved by the first name alone, and another transfer of
\* the upload stayed unresolved with suggestions
DriverResolvedByFirstNameWitness ==
    /\ \E i \in DOMAIN parsedTransfers \ edited :
         /\ parsedTransfers[i].toDriverMatch # NoMatch
         /\ ~ContainsEitherWay(parsedTransfers[i].toDriver,
                               parsedTransfers[i].toDriverMatch)
    /\ \E i \in DOMAIN parsedTransfers \ edited :
         /\ drivers # <<>>
         /\ parsedTransfers[i].toDriverMatch = NoMatch
         /\ parsedTransfers[i].suggestions.toDriver = [list |-> <<>>]


(***************************************************************************)
(* Properties of the parser                                                *)
(***************************************************************************)
\* two candidates with the same identity: vehicle token, to-driver token and
\* timestamp (or none)
SameIdentity(a, b) ==
    /\ a.vehicleId = b.vehicleId
    /\ a.toDriver = b.toDriver
    /\ a.dateTime = b.dateTime

\* the candidates that are the first of their identity, in their order
FirstOccurrences(transfers) ==
    LET first == {i \in DOMAIN transfers :
                    \A j \in 1..(i - 1) : ~SameIdentity(transfers[j], transfers[i])}
        RECURSIVE from(_)
        from(i) == IF i > Len(transfers) THEN <<>>
                   ELSE (IF i \in first THEN <<transfers[i]>> ELSE <<>>) \o from(i + 1)
    IN  from(1)

\* C17: deduplicateTransfers returns its input with only the first candidate
\* of each identity (vehicle token, to-driver token, timestamp or none) kept,
\* in the order of the input; candidates that differ in one of the three are
\* both kept
FirstSeenWins ==
    /\ ret.op = "parseChat" =>
          ret.result = FirstOccurrences(chatTransfers(ret.lines))
    /\ ret.op = "parseCSV" =>
          ret.result = FirstOccurrences(tableTransfers(ret.lines, ret.dates))

\* the matches of the text that give a vehicle and a to-driver after cleaning
MatchesWithTokens(text, patternIndex) ==
    {m \in DOMAIN matchesOf(text, patternIndex) :
        LET roles == rolesOfMatch(matchesOf(text, patternIndex)[m], patternIndex)
        IN  roles.vehicleId # <<>> /\ roles.toDriver # <<>>}

HasTokens(transfer) ==
    /\ transfer.vehicleId \notin {<<>>, Null}
    /\ transfer.toDriver \notin {<<>>, Null}

\* C18: every candidate of findTransferPatterns, parseChat and parseCSV has a
\* non-empty vehicle token and a non-empty to-driver token; a match whose
\* cleaned tokens lack one of them gives no candidate, before deduplication
CandidatesHaveTokens ==
    /\ ret.op \in {"findTransferPatterns", "parseChat", "parseCSV"} =>
          \A i \in DOMAIN ret.result : HasTokens(ret.result[i])
    /\ ret.op = "parseChat" =>
          \A transfer \in Range(chatTransfers(ret.lines)) : HasTokens(transfer)
    /\ ret.op = "parseCSV" =>
          \A transfer \in Range(tableTransfers(ret.lines, ret.dates)) :
              HasTokens(transfer)
    /\ ret.op = "findTransferPatterns" =>
          Len(ret.result) =
              Cardinality({<<p, m>> \in (0..5) \X (1..Len(ret.text)) :
                             m \in MatchesWithTokens(ret.text, p)})

\* C18: a line with a match that has no vehicle gave no candidate
DroppedMatchWitness ==
    /\ ret.op = "findTransferPatterns"
    /\ ret.text = LineNoVehicle
    /\ Len(matchesOf(ret.text, 0)) = 1
    /\ ret.result = <<>>

\* C19: a candidate of rule 0, 1, 3 or 5 has the first capture as vehicle and
\* the second as to-driver; of rule 2 the first as to-driver and the second as
\* vehicle; of rule 4 the captures as from-driver, vehicle, to-driver; the
\* from-driver is null but for rule 4
RolesByRule ==
    ret.op = "findTransferPatterns" =>
        \A i \in DOMAIN ret.result :
            LET c == ret.result[i]
                matches == matchesOf(ret.text, c.patternUsed)
            IN  /\ c.fromDriver # Null => c.patternUsed = 4
                /\ \E m \in DOMAIN matches :
                     LET g == matches[m].groups
                     IN  CASE c.patternUsed \in {0, 1, 3, 5} ->
                                /\ c.vehicleId = cleanVehicleId(g[1])
                                /\ c.toDriver = cleanDriverName(g[2])
                           [] c.patternUsed = 2 ->
                                /\ c.toDriver = cleanDriverName(g[1])
                                /\ c.vehicleId = cleanVehicleId(g[2])
                           [] c.patternUsed = 4 ->
                                /\ c.fromDriver = cleanDriverName(g[1])
                                /\ c.vehicleId = cleanVehicleId(g[2])
                                /\ c.toDriver = cleanDriverName(g[3])

\* C19: "Pedro recibe el carro DEF-789" gave Pedro the vehicle DEF-789
RolesByRuleWitness ==
    /\ ret.op = "findTransferPatterns"
    /\ ret.text = LineReceives
    /\ Len(ret.result) = 1
    /\ ret.result[1].patternUsed = 2
    /\ ret.result[1].toDriver = <<"P", "e", "d", "r", "o">>
    /\ ret.result[1].vehicleId = <<"D", "E", "F", "-", "7", "8", "9">>
    /\ ret.result[1].fromDriver = Null

\* the timestamp of the first layout whose match forms a valid date, from the
\* layout at index p on
RECURSIVE firstValidFrom(_, _, _)
firstValidFrom(text, p, offset) ==
    IF p > Len(dateTimePatterns) THEN NullDate
    ELSE LET match == DateTimeMatches[text][p]
             dateTime == IF match.ok THEN dateTimeOfMatch(match, offset)
                         ELSE NullDate
         IN  IF dateTime # NullDate THEN dateTime
             ELSE firstValidFrom(text, p + 1, offset)

\* C20: extractDateTime returns the timestamp of the first layout that gives
\* a valid one, going on to the next layout when a match is no valid date, and
\* no timestamp only if no layout gives a valid one
FirstValidLayoutWins ==
    ret.op = "extractDateTime" =>
        ret.result = firstValidFrom(ret.text, 1, utcOffset)

(***************************************************************************)
(* The commit of a batch and the ledger                                    *)
(***************************************************************************)
\* handleSaveTransfers has completed successfully
SaveSucceeded == ret.op = "handleSaveTransfers" /\ ret.success

\* C21: whenever a commit of a batch (handleSaveTransfers) has completed
\* successfully, the ledger holds a DailyProcessingRecord for the date of the
\* commit, so that a later alert tick finds the date processed.
CommitRecorded ==
    SaveSucceeded => ProcessingDocs(_formatDateString(ret.at)) # {}

(***************************************************************************)
(* The timers of the alert hook                                            *)
(***************************************************************************)
\* a timer of the hook has called performAlertCheck
TimerTriggeredCheck == ret.op = "performAlertCheck" /\ ~ret.isManual

\* C22: in every environment, while the alert hook is mounted, a timer of
\* the hook eventually triggers an alert check without any manual action.
AutomaticCheckEventually == [](mounted => <>(~mounted \/ TimerTriggeredCheck))

\* C24: at most one checkAndSendDailyAlerts run of the hook is in flight at
\* any time: a trigger that arrives while a check is running is skipped.
AtMostOneCheckInFlight == Len(inFlight) <= 1

\* C25: after the hook is unmounted no timer it created triggers an alert
\* check: a timer callback never runs performAlertCheck for a hook that is
\* gone.
NoCheckAfterUnmount == ~(TimerTriggeredCheck /\ ~ret.mounted)

(***************************************************************************)
(* recordDailyProcessing fails hard                                        *)
(***************************************************************************)
\* C23: recordDailyProcessing returns a record only if that record is in the
\* ledger and its arguments were valid; when it throws (invalid date or
\* data, rejected write) the ledger is as it was before the call.
RecordIsHardFailure ==
    [][ret'.op = "recordDailyProcessing" =>
         IF ret'.threw
         THEN daily_processing' = daily_processing
         ELSE /\ \E id \in DOMAIN daily_processing' :
                    daily_processing'[id] = ret'.record
              /\ _validateDate(ret'.date)
              /\ _validateProcessingData(ret'.data)]_vars

\* a call has thrown after an earlier one had written a record
RecordIsHardFailureWitness ==
    /\ ret.op = "recordDailyProcessing"
    /\ ret.threw
    /\ daily_processing # <<>>

(***************************************************************************)
(* The warning of useChangeDetection                                       *)
(***************************************************************************)
\* shouldShowWarning of useChangeDetection.detectChanges
shouldShowWarning(changeInfo) ==
    /\ changeInfo.hasChanges
    /\ ~changeInfo.isFirstProcessing
    /\ Len(changeInfo.changes) > 0

\* C26: whenever detectChanges returns hasChanges = true with
\* isFirstProcessing = false and no error, its changes list is not empty, so
\* that useChangeDetection shows the warning for every re-processing whose
\* fingerprint differs from the recorded one.
ChangesListedWhenChanged ==
    (/\ ret.op = "detectChanges"
     /\ ret.result.hasChanges
     /\ ~ret.result.isFirstProcessing
     /\ ~ret.result.error) => shouldShowWarning(ret.result)

(***************************************************************************)
(* The vehicles collection and the selection of TransferPreview            *)
(***************************************************************************)
\* C27: in the persisted vehicles collection no driver is the
\* currentDriverId of more than one vehicle, once the writes of
\* handleAssignDriver, handleSaveVehicle and handleSaveTransfers are applied.
ExclusiveAssignment ==
    (saving = NotSaving /\ writes = <<>>) =>
        \A a, b \in DOMAIN vehicleDocs :
            (a # b /\ vehicleDocs[a] = vehicleDocs[b]) =>
                vehicleDocs[a] = NoDriver

\* the last transfer of the list for its vehicle
LastOfVehicle(list, k) ==
    \A later \in (k + 1)..Len(list) :
        list[later].vehicleMatch.id # list[k].vehicleMatch.id

InitialSelectionIsValidPositions ==
    [][(parsedTransfers' # parsedTransfers /\ parsedTransfers' # <<>>) =>
          Range(selectedTransfers') = Range(validIndexes(parsedTransfers'))]_vars

(***************************************************************************)
(* useDailyProcessingCheck and the date it is asked about                  *)
(***************************************************************************)
\* C30: once every awaited check has answered, the state of
\* useDailyProcessingCheck is the answer for the date of the latest render:
\* the answer for an earlier date never replaces it.
ReflectsLatestDate ==
    (checkRequests = {} /\ dateProp # NoDate) => checkState.of = dateProp

====
